---- MODULE Spec2Model ----
(***************************************************************************)
(* Model of utilitywarehouse/manifest-checkers:                            *)
(*   - kustomize-build-dirs   (kustomizeBuildDirs and its helpers)         *)
(*   - get-kustomize-build-base (getBaseForChange and its helpers)         *)
(*                                                                         *)
(* A path string is modelled as the sequence of its "/"-separated          *)
(* segments, exactly what strings.Split(path, "/") yields:                 *)
(*     "a/b"  = <<"a","b">>      "."   = <<".">>      ".." = <<"..">>      *)
(*     ""     = <<"">>           "/a"  = <<"","a">>   "/"  = <<"","">>     *)
(*     "a/"   = <<"a","">>                                                 *)
(***************************************************************************)
EXTENDS Integers, Sequences, FiniteSets, TLC

VARIABLES
    kind,       \* file tree: directory -> kind of its kustomization.yaml ("none": no such file)
    statErr,    \* file tree: directories where os.Stat of the marker fails with another error than not-exist
    content,    \* file tree: file -> content of the repository's other files
    tagged,     \* file tree: files git reports with attributes filter=strongbox diff=strongbox
    call,       \* the last call of a pure function: its name, arguments and results
    pc,         \* kustomizeBuildDirs: position of the main goroutine
    args,       \* kustomizeBuildDirs: doTruncateSecrets and filepaths
    kustomizationRoots, \* kustomizeBuildDirs: the local variable of that name
    secrets,    \* truncateSecrets: the secrets still to truncate
    task,       \* buildManifests: the goroutines launched with group.Go, in launch order
    mutex,      \* buildManifests: 0 when unlocked, else the index of the holding task
    manifestMap,\* buildManifests: the shared result map
    groupErr,   \* buildManifests: the first error recorded by the errgroup
    buildRet,   \* buildManifests: what it returned to kustomizeBuildDirs
    outDirs,    \* out-dir: the target directories created
    outFiles,   \* out-dir: root -> content of <out-dir>/<root>/manifests.yaml
    started,    \* history: the roots whose `kustomize build` command has been started
    failOrder,  \* history: the tasks whose command failed, in the order they reported it
    ret         \* kustomizeBuildDirs: its return value

\* ------------------------------------------------------------------ bounds
\* longest input path, in segments, handed to the search functions
MaxPathLen == 3
\* upper bound on the iterations of the upward walk explored by the model
MaxWalk == 6
\* longest list of file paths handed to kustomizeBuildDirs
MaxPaths == 3
\* longest list of directories handed to truncateSecrets called on its own
MaxDirs == 2
\* longest input, in lines, read by run
MaxLines == 2
\* longest list of manifest files handed to validateOpsLevelAnnotationsForManifests
MaxManifests == 2

\* ------------------------------------------------------- path/filepath
EmptyString == <<"">>
Dot == <<".">>
DotDot == <<"..">>
MarkerName == "kustomization.yaml"

\* a path is rooted when it starts with the separator
IsAbs(p) == Len(p) >= 2 /\ p[1] = ""

\* filepath.Clean: the lexical processing of the segments, left to right
RECURSIVE CleanSegs(_, _, _)
CleanSegs(p, out, rooted) ==
    IF p = <<>> THEN out
    ELSE LET s == Head(p)
             rest == Tail(p)
         IN IF s = "" \/ s = "."
            THEN CleanSegs(rest, out, rooted)
            ELSE IF s = ".."
                 THEN IF out # <<>> /\ out[Len(out)] # ".."
                      THEN CleanSegs(rest, SubSeq(out, 1, Len(out) - 1), rooted)
                      ELSE IF rooted
                           THEN CleanSegs(rest, out, rooted)
                           ELSE CleanSegs(rest, Append(out, ".."), rooted)
                 ELSE CleanSegs(rest, Append(out, s), rooted)

Clean(p) ==
    LET rooted == IsAbs(p)
        out == CleanSegs(p, <<>>, rooted)
    IN IF rooted
       THEN <<"">> \o (IF out = <<>> THEN <<"">> ELSE out)
       ELSE IF out = <<>> THEN Dot ELSE out

\* filepath.Dir: everything up to and including the last separator, cleaned
Dir(p) == Clean(SubSeq(p, 1, Len(p) - 1) \o <<"">>)

\* filepath.Base: the last element, trailing separators removed
RECURSIVE StripTrailing(_)
StripTrailing(p) ==
    IF Len(p) > 1 /\ p[Len(p)] = "" THEN StripTrailing(SubSeq(p, 1, Len(p) - 1)) ELSE p

Base(p) ==
    IF p = EmptyString THEN "."
    ELSE LET q == StripTrailing(p)
         IN IF q = <<"">> THEN "/" ELSE q[Len(q)]

\* filepath.Join(a, b): empty elements are ignored, the rest joined and cleaned
Join(a, b) ==
    IF a = EmptyString /\ b = EmptyString THEN EmptyString
    ELSE IF a = EmptyString THEN Clean(b)
    ELSE IF b = EmptyString THEN Clean(a)
    ELSE Clean(a \o b)

\* The directory that filepath.Join(repoRoot, dir, "kustomization.yaml") names,
\* written relative to the repository root (repoRoot itself is absolute, so a
\* rooted dir is re-rooted under it; a dir starting with ".." lies outside).
ProbeLoc(dir) == IF IsAbs(dir) THEN Clean(Tail(dir)) ELSE Clean(dir)

\* ------------------------------------------------------------ file tree
NoError == "nil"

\* directories of the modelled tree that may hold a kustomization.yaml; the
\* last one lies outside the repository
MarkerLocs == {Dot, <<"a">>, <<"a", "b">>, <<"b">>, <<"..", "a">>}

HasMarker(loc) == loc \in DOMAIN kind /\ kind[loc] # "none"

\* os.Stat(filepath.Join(repoRoot, dir, "kustomization.yaml"))
Stat(dir) ==
    LET loc == ProbeLoc(dir)
    IN IF loc \in statErr THEN "error"
       ELSE IF HasMarker(loc) THEN "nil"
       ELSE "notexist"

\* -------------------------------------------- kustomize-build-dirs: search
\* the for loop of findKustomizationRoot, from directory dir on; fuel counts
\* the iterations still explored ("diverged": the loop is still running)
\* a walk that stops below the repository root instead of past it (dir != ".")
RECURSIVE findKustomizationRootFromStopsEarly(_, _)
findKustomizationRootFromStopsEarly(dir, fuel) ==
    IF dir = DotDot \/ dir = Dot THEN [root |-> EmptyString, err |-> NoError, at |-> dir]
    ELSE IF fuel = 0 THEN [root |-> EmptyString, err |-> "diverged", at |-> dir]
    ELSE LET st == Stat(dir)
         IN IF st = "nil" THEN [root |-> dir, err |-> NoError, at |-> dir]
            ELSE IF st = "error"
                 THEN [root |-> EmptyString, err |-> "error checking for file", at |-> dir]
                 ELSE findKustomizationRootFromStopsEarly(Clean(Join(dir, DotDot)), fuel - 1)

RECURSIVE findKustomizationRootFrom(_, _)
findKustomizationRootFrom(dir, fuel) ==
    IF dir = DotDot THEN [root |-> EmptyString, err |-> NoError, at |-> dir]
    ELSE IF fuel = 0 THEN [root |-> EmptyString, err |-> "diverged", at |-> dir]
    ELSE LET st == Stat(dir)
         IN IF st = "nil" THEN [root |-> dir, err |-> NoError, at |-> dir]
            ELSE IF st = "error"
                 THEN [root |-> EmptyString, err |-> "error checking for file", at |-> dir]
                 ELSE findKustomizationRootFrom(Clean(Join(dir, DotDot)), fuel - 1)

findKustomizationRoot(relativePath) ==
    findKustomizationRootFrom(Dir(relativePath), MaxWalk)

\* --------------------------------------- get-kustomize-build-base: search
changeStatusModification == "M"
changeStatusChangingType == "T"
changeStatusAddition == "A"
changeStatusDeletion == "D"
changeStatusCopy == "C"
changeStatusRenaming == "R"

RECURSIVE baseFindKustomizationRootFrom(_, _)
baseFindKustomizationRootFrom(dir, fuel) ==
    IF dir = DotDot THEN [root |-> EmptyString, err |-> NoError, at |-> dir]
    ELSE IF fuel = 0 THEN [root |-> EmptyString, err |-> "diverged", at |-> dir]
    ELSE LET st == Stat(dir)
         IN IF st = "notexist"
            THEN baseFindKustomizationRootFrom(Clean(Join(dir, DotDot)), fuel - 1)
            ELSE IF st = "error"
                 THEN [root |-> EmptyString, err |-> "stating directory", at |-> dir]
                 ELSE [root |-> dir, err |-> NoError, at |-> dir]

baseFindKustomizationRoot(relativePath) ==
    baseFindKustomizationRootFrom(Dir(relativePath), MaxWalk)

findKustomizationRootForNew(relativePath) ==
    LET searchRoot == IF Base(relativePath) = MarkerName
                      THEN Dir(relativePath)
                      ELSE relativePath
    IN baseFindKustomizationRoot(searchRoot)

\* getBaseForChange returns a string and an error; the string is modelled as
\* the sequence of its "\n"-separated lines, so "" is <<EmptyString>>
NoBase == <<EmptyString>>

\* a classifier that prints the root of a Rename once when both sides resolve
\* to the same root
getBaseForChangeDedup(status, files) ==
    IF status \in {changeStatusModification, changeStatusChangingType}
    THEN LET r == baseFindKustomizationRoot(files[1])
         IN [base |-> <<r.root>>, err |-> r.err]
    ELSE IF status \in {changeStatusAddition, changeStatusDeletion}
    THEN LET r == findKustomizationRootForNew(files[1])
         IN [base |-> <<r.root>>, err |-> r.err]
    ELSE IF status = changeStatusCopy
    THEN LET r == findKustomizationRootForNew(files[2])
         IN [base |-> <<r.root>>, err |-> r.err]
    ELSE IF status = changeStatusRenaming
    THEN LET deleted == findKustomizationRootForNew(files[1])
             added == findKustomizationRootForNew(files[2])
         IN IF deleted.err # NoError THEN [base |-> NoBase, err |-> deleted.err]
            ELSE IF added.err # NoError THEN [base |-> NoBase, err |-> added.err]
            ELSE IF deleted.root = added.root THEN [base |-> <<deleted.root>>, err |-> NoError]
            ELSE [base |-> <<deleted.root, added.root>>, err |-> NoError]
    ELSE [base |-> NoBase, err |-> NoError]

\* a classifier that resolves a Copy from its source path
getBaseForChangeCopySource(status, files) ==
    IF status \in {changeStatusModification, changeStatusChangingType}
    THEN LET r == baseFindKustomizationRoot(files[1])
         IN [base |-> <<r.root>>, err |-> r.err]
    ELSE IF status \in {changeStatusAddition, changeStatusDeletion}
    THEN LET r == findKustomizationRootForNew(files[1])
         IN [base |-> <<r.root>>, err |-> r.err]
    ELSE IF status = changeStatusCopy
    THEN LET r == findKustomizationRootForNew(files[1])
         IN [base |-> <<r.root>>, err |-> r.err]
    ELSE IF status = changeStatusRenaming
    THEN LET deleted == findKustomizationRootForNew(files[1])
             added == findKustomizationRootForNew(files[2])
         IN IF deleted.err # NoError THEN [base |-> NoBase, err |-> deleted.err]
            ELSE IF added.err # NoError THEN [base |-> NoBase, err |-> added.err]
            ELSE [base |-> <<deleted.root, added.root>>, err |-> NoError]
    ELSE [base |-> NoBase, err |-> NoError]

\* a classifier that reports a status it does not know as an error
getBaseForChangeRejectsUnknown(status, files) ==
    IF status \in {changeStatusModification, changeStatusChangingType}
    THEN LET r == baseFindKustomizationRoot(files[1])
         IN [base |-> <<r.root>>, err |-> r.err]
    ELSE IF status \in {changeStatusAddition, changeStatusDeletion}
    THEN LET r == findKustomizationRootForNew(files[1])
         IN [base |-> <<r.root>>, err |-> r.err]
    ELSE IF status = changeStatusCopy
    THEN LET r == findKustomizationRootForNew(files[2])
         IN [base |-> <<r.root>>, err |-> r.err]
    ELSE IF status = changeStatusRenaming
    THEN LET deleted == findKustomizationRootForNew(files[1])
             added == findKustomizationRootForNew(files[2])
         IN IF deleted.err # NoError THEN [base |-> NoBase, err |-> deleted.err]
            ELSE IF added.err # NoError THEN [base |-> NoBase, err |-> added.err]
            ELSE [base |-> <<deleted.root, added.root>>, err |-> NoError]
    ELSE [base |-> NoBase, err |-> "unknown status"]

getBaseForChange(status, files) ==
    IF status \in {changeStatusModification, changeStatusChangingType}
    THEN LET r == baseFindKustomizationRoot(files[1])
         IN [base |-> <<r.root>>, err |-> r.err]
    ELSE IF status \in {changeStatusAddition, changeStatusDeletion}
    THEN LET r == findKustomizationRootForNew(files[1])
         IN [base |-> <<r.root>>, err |-> r.err]
    ELSE IF status = changeStatusCopy
    THEN LET r == findKustomizationRootForNew(files[2])
         IN [base |-> <<r.root>>, err |-> r.err]
    ELSE IF status = changeStatusRenaming
    THEN LET deleted == findKustomizationRootForNew(files[1])
             added == findKustomizationRootForNew(files[2])
         IN IF deleted.err # NoError THEN [base |-> NoBase, err |-> deleted.err]
            ELSE IF added.err # NoError THEN [base |-> NoBase, err |-> added.err]
            ELSE [base |-> <<deleted.root, added.root>>, err |-> NoError]
    ELSE [base |-> NoBase, err |-> NoError]

\* ----------------------------------------- get-kustomize-build-base: run
\* An input line is modelled as the sequence of its " "-separated parts, a
\* part as the sequence of its "\t"-separated fields, and a field as the
\* sequence of its "/"-separated segments (a status letter is one segment).
gitDiffStatusColumn == 4

\* the text of the status field
StatusText(field) == IF Len(field) = 1 THEN field[1] ELSE "/"

\* the number of files getBaseForChange indexes for a status
FilesIndexed(status) ==
    IF status \in {changeStatusCopy, changeStatusRenaming} THEN 2
    ELSE IF status \in {changeStatusModification, changeStatusChangingType,
                        changeStatusAddition, changeStatusDeletion} THEN 1
    ELSE 0

\* the loop of run over the lines the scanner yields; out is the sequence of
\* lines written so far. An index out of range panics.
RECURSIVE runLoop(_, _)
runLoop(lines, out) ==
    IF lines = <<>> THEN [out |-> out, err |-> NoError]
    ELSE LET parts == Head(lines)
         IN IF Len(parts) < gitDiffStatusColumn + 1
            THEN [out |-> out, err |-> "panic: index out of range"]
            ELSE LET statusAndFiles == parts[gitDiffStatusColumn + 1]
                     status == StatusText(statusAndFiles[1])
                     files == Tail(statusAndFiles)
                 IN IF Len(files) < FilesIndexed(status)
                    THEN [out |-> out, err |-> "panic: index out of range"]
                    ELSE LET r == getBaseForChange(status, files)
                         IN IF r.err # NoError THEN [out |-> out, err |-> r.err]
                            ELSE IF r.base # NoBase
                                 THEN runLoop(Tail(lines), out \o r.base)
                                 ELSE runLoop(Tail(lines), out)

run(lines) == runLoop(lines, <<>>)

\* a line of `git diff --raw` for a change, as buildDiffTreeOutput writes it
buildDiffTreeOutput(status, files) ==
    << << <<":100644">> >>, << <<"100644">> >>, << <<"cb3d1f8">> >>, << <<"cb3d1f8">> >>,
       << <<status>> >> \o files >>

\* A file name that may hold spaces is written as the sequence of its
\* " "-separated pieces, each the sequence of its "/"-separated segments:
\* "a b/f" is << <<"a">>, <<"b", "f">> >>.
\* the segments of two pieces joined by a space
SpaceJoin(a, b) == SubSeq(a, 1, Len(a) - 1) \o <<a[Len(a)] \o " " \o Head(b)>> \o Tail(b)

\* the "/"-separated segments of the whole name
RECURSIVE WholeName(_)
WholeName(name) ==
    IF Len(name) = 1 THEN Head(name) ELSE SpaceJoin(Head(name), WholeName(Tail(name)))

\* the pieces of the text "\t<name>\t<name>...", each with the separator before it
RECURSIVE Pieces(_)
Pieces(names) ==
    IF names = <<>> THEN <<>>
    ELSE LET name == Head(names)
         IN <<[sep |-> "\t", piece |-> Head(name)]>>
            \o [i \in 1..(Len(name) - 1) |-> [sep |-> " ", piece |-> name[i + 1]]]
            \o Pieces(Tail(names))

\* strings.Split(line, " ") and strings.Split(part, "\t") on a text of pieces:
\* a space starts a new part, a tab a new field of the last part
RECURSIVE SplitPieces(_, _)
SplitPieces(pieces, parts) ==
    IF pieces = <<>> THEN parts
    ELSE LET p == Head(pieces)
         IN IF p.sep = " "
            THEN SplitPieces(Tail(pieces), Append(parts, <<p.piece>>))
            ELSE SplitPieces(Tail(pieces),
                             [parts EXCEPT ![Len(parts)] = Append(@, p.piece)])

\* a line of `git diff --raw` for a change whose file names may hold spaces,
\* as strings.Split(line, " ") yields it
gitDiffRawLine(status, names) ==
    SplitPieces(Pieces(names),
                << << <<":100644">> >>, << <<"100644">> >>, << <<"cb3d1f8">> >>,
                   << <<"cb3d1f8">> >>, << <<status>> >> >>)

\* ------------------------------------------------- inputs of the searches
Segs == {"a", "b", MarkerName, "..", ""}
PathsUpTo(n) == UNION {[1..k -> Segs] : k \in 1..n}
Paths == PathsUpTo(MaxPathLen)
\* the source/destination pairs of Copy and Rename records
PairPaths == {<<"a", "b", "a">>, <<"a", "b", MarkerName>>, <<"a", MarkerName>>,
              <<"b", "a">>, <<"b", MarkerName>>, <<"a">>, <<MarkerName>>}
Statuses == {changeStatusModification, changeStatusChangingType, changeStatusAddition,
             changeStatusDeletion, changeStatusCopy, changeStatusRenaming, "X"}

vars == <<kind, statErr, content, tagged, call, pc, args, kustomizationRoots, secrets,
          task, mutex, manifestMap, groupErr, buildRet, outDirs, outFiles, started, failOrder, ret>>
fsVars == <<kind, statErr, tagged>>
runVars == <<pc, args, kustomizationRoots, secrets, task, mutex, manifestMap, groupErr,
             buildRet, outDirs, outFiles, started, failOrder, ret>>

NoCall == [fn |-> "none"]
EmptyMap == <<>>
Running == [err |-> "running"]
Nil == [err |-> NoError]

\* kustomizeBuildDirs has not been entered
NotRun ==
    /\ pc = "idle"
    /\ args = [doTruncateSecrets |-> FALSE, filepaths |-> <<>>]
    /\ kustomizationRoots = <<>>
    /\ secrets = <<>>
    /\ task = <<>>
    /\ mutex = 0
    /\ manifestMap = EmptyMap
    /\ groupErr = Nil
    /\ buildRet = Running
    /\ outDirs = {}
    /\ outFiles = EmptyMap
    /\ started = {}
    /\ failOrder = <<>>
    /\ ret = Running

SearchInit ==
    /\ kind \in [MarkerLocs -> {"none", "Kustomization"}]
    /\ statErr \in SUBSET {<<"a">>}
    /\ content = EmptyMap
    /\ tagged = {}
    /\ call = NoCall
    /\ NotRun

CallFindKustomizationRoot ==
    /\ call = NoCall
    /\ \E path \in Paths :
           call' = [fn |-> "findKustomizationRoot", path |-> path,
                    ret |-> findKustomizationRoot(path)]
    /\ UNCHANGED <<fsVars, content, runVars>>

CallGetBaseForChange ==
    /\ call = NoCall
    /\ \E status \in Statuses :
       \E files \in IF status \in {changeStatusCopy, changeStatusRenaming}
                    THEN PairPaths \X PairPaths
                    ELSE {<<p>> : p \in Paths} :
           call' = [fn |-> "getBaseForChange", status |-> status, files |-> files,
                    ret |-> getBaseForChange(status, files)]
    /\ UNCHANGED <<fsVars, content, runVars>>

\* ------------------------------------- kustomize-build-dirs: the pipeline
\* the repository of the pipeline runs: a root-level directory and two
\* sub-directories, each with a plain file "f" and a secret candidate "s"
RepoDirs == {Dot, <<"a">>, <<"b">>}
FileIn(d, name) == IF d = Dot THEN <<name>> ELSE Append(d, name)
\* the repository's files as git ls-files lists them (sorted)
FileOrder == <<<<"a", "f">>, <<"a", "s">>, <<"b", "f">>, <<"b", "s">>, <<"f">>, <<"s">>>>
Files == {FileOrder[i] : i \in 1..Len(FileOrder)}
SecretFiles == {FileIn(d, "s") : d \in RepoDirs}
InputPaths == {FileIn(d, "f") : d \in RepoDirs}

Range(seq) == {seq[i] : i \in 1..Len(seq)}
SeqsUpTo(S, n) == UNION {[1..k -> S] : k \in 0..n}
\* a range that may visit a key more than once
OrdersWithRepeats(S) == [1..Cardinality(S) -> S]

\* every order in which ranging over a Go map may visit the keys S
Perms(S) == {q \in [1..Cardinality(S) -> S] : \A i, j \in 1..Cardinality(S) : i # j => q[i] # q[j]}

\* a loop that skips a path whose probe fails and goes on with the next
RECURSIVE findKustomizationRootsLoopSkipsErrors(_, _)
findKustomizationRootsLoopSkipsErrors(paths, rootsMap) ==
    IF paths = <<>> THEN [rootsMap |-> rootsMap, err |-> NoError, at |-> Dot]
    ELSE LET r == findKustomizationRoot(Head(paths))
         IN IF r.err # NoError \/ r.root = EmptyString
            THEN findKustomizationRootsLoopSkipsErrors(Tail(paths), rootsMap)
            ELSE findKustomizationRootsLoopSkipsErrors(Tail(paths), rootsMap \cup {r.root})

\* a loop that returns what it has collected at the first path without a root
RECURSIVE findKustomizationRootsLoopStopsAtEmpty(_, _)
findKustomizationRootsLoopStopsAtEmpty(paths, rootsMap) ==
    IF paths = <<>> THEN [rootsMap |-> rootsMap, err |-> NoError, at |-> Dot]
    ELSE LET r == findKustomizationRoot(Head(paths))
         IN IF r.err # NoError THEN [rootsMap |-> {}, err |-> r.err, at |-> r.at]
            ELSE IF r.root = EmptyString
                 THEN [rootsMap |-> rootsMap, err |-> NoError, at |-> Dot]
                 ELSE findKustomizationRootsLoopStopsAtEmpty(Tail(paths), rootsMap \cup {r.root})

\* the loop of findKustomizationRoots over paths, rootsMap being the map's keys
RECURSIVE findKustomizationRootsLoop(_, _)
findKustomizationRootsLoop(paths, rootsMap) ==
    IF paths = <<>> THEN [rootsMap |-> rootsMap, err |-> NoError, at |-> Dot]
    ELSE LET r == findKustomizationRoot(Head(paths))
         IN IF r.err # NoError THEN [rootsMap |-> {}, err |-> r.err, at |-> r.at]
            ELSE IF r.root = EmptyString
                 THEN findKustomizationRootsLoop(Tail(paths), rootsMap)
                 ELSE findKustomizationRootsLoop(Tail(paths), rootsMap \cup {r.root})

findKustomizationRoots(paths) == findKustomizationRootsLoop(paths, {})

\* a check that never reports a Component (the kind is not compared)
checkIfIsComponentNever(path, unreadable) ==
    IF path = unreadable THEN [isComponent |-> FALSE, err |-> "failed opening kustomization file"]
    ELSE IF kind[ProbeLoc(path)] = "Invalid" THEN [isComponent |-> FALSE, err |-> "log.Fatalf"]
    ELSE [isComponent |-> FALSE, err |-> NoError]

\* a check that returns the failure to parse the file as an error value
checkIfIsComponentReturnsParseError(path, unreadable) ==
    IF path = unreadable THEN [isComponent |-> FALSE, err |-> "failed opening kustomization file"]
    ELSE IF kind[ProbeLoc(path)] = "Invalid"
         THEN [isComponent |-> FALSE, err |-> "Error unmarshaling YAML"]
    ELSE [isComponent |-> kind[ProbeLoc(path)] = "Component", err |-> NoError]

\* checkIfIsComponent on the kustomization.yaml of root path; unreadable is the
\* root whose file os.Open cannot open (EmptyString: none); a file of kind
\* "Invalid" is one io.ReadAll or yaml.Unmarshal fails on, which is log.Fatalf
checkIfIsComponent(path, unreadable) ==
    IF path = unreadable THEN [isComponent |-> FALSE, err |-> "failed opening kustomization file"]
    ELSE IF kind[ProbeLoc(path)] = "Invalid" THEN [isComponent |-> FALSE, err |-> "log.Fatalf"]
    ELSE [isComponent |-> kind[ProbeLoc(path)] = "Component", err |-> NoError]

\* the loop of removeComponentKustomizations
RECURSIVE removeComponentKustomizationsLoop(_, _, _)
removeComponentKustomizationsLoop(paths, pathsNoComponent, unreadable) ==
    IF paths = <<>> THEN [paths |-> pathsNoComponent, err |-> NoError, at |-> Dot]
    ELSE LET c == checkIfIsComponent(Head(paths), unreadable)
         IN IF c.err # NoError THEN [paths |-> <<>>, err |-> c.err, at |-> Head(paths)]
            ELSE IF ~c.isComponent
                 THEN removeComponentKustomizationsLoop(
                          Tail(paths), Append(pathsNoComponent, Head(paths)), unreadable)
                 ELSE removeComponentKustomizationsLoop(Tail(paths), pathsNoComponent, unreadable)

removeComponentKustomizations(paths, unreadable) ==
    removeComponentKustomizationsLoop(paths, <<>>, unreadable)

\* a pathspec naming directory d matches file f
Under(f, d) == d = Dot \/ (Len(f) > Len(d) /\ SubSeq(f, 1, Len(d)) = d)

\* a listing that is not scoped to dirs: every tagged file of the repository
findSecretsEverywhere(dirs) ==
    SelectSeq(FileOrder, LAMBDA f : f \in tagged)

\* findSecrets: `git ls-files -z -- not/a/path <attr pathspec>dir...`: the
\* tagged files under one of dirs, none when dirs is empty
findSecrets(dirs) ==
    SelectSeq(FileOrder, LAMBDA f : f \in tagged /\ \E d \in Range(dirs) : Under(f, d))

\* what `kustomize build <root>` prints
Stdout(root) == <<"stdout of kustomize build", root>>
Stderr(root) == <<"stderr of kustomize build", root>>

\* kustomizeBuildDirs returns err
Return(err) == /\ ret' = err
               /\ pc' = "done"

\* the value of the flag --truncate-secrets when it is not given
truncateSecretsDefault == FALSE

PipelineInit ==
    /\ kind \in [RepoDirs -> {"none", "Kustomization", "Component", "Invalid"}]
    /\ statErr \in SUBSET {<<"a">>}
    /\ content = [f \in Files |-> "data"]
    /\ tagged = SecretFiles
    /\ call = NoCall
    /\ pc = "getwd"
    /\ args \in [doTruncateSecrets : BOOLEAN, filepaths : SeqsUpTo(InputPaths, MaxPaths)]
    /\ kustomizationRoots = <<>>
    /\ secrets = <<>>
    /\ task = <<>>
    /\ mutex = 0
    /\ manifestMap = EmptyMap
    /\ groupErr = Nil
    /\ buildRet = Running
    /\ outDirs = {}
    /\ outFiles = EmptyMap
    /\ started = {}
    /\ failOrder = <<>>
    /\ ret = Running

\* rootDir, err := getwdFunc()
Getwd ==
    /\ pc = "getwd"
    /\ \/ pc' = "checkKustomizeInstalled" /\ UNCHANGED ret
       \/ Return([err |-> "error reading working directory"])
    /\ UNCHANGED <<fsVars, content, call, args, kustomizationRoots, secrets, task, mutex,
                   manifestMap, groupErr, buildRet, outDirs, outFiles, started, failOrder>>

CheckKustomizeInstalled ==
    /\ pc = "checkKustomizeInstalled"
    /\ \/ pc' = "findKustomizationRoots" /\ UNCHANGED ret
       \/ Return([err |-> "requires kustomize to be installed"])
    /\ UNCHANGED <<fsVars, content, call, args, kustomizationRoots, secrets, task, mutex,
                   manifestMap, groupErr, buildRet, outDirs, outFiles, started, failOrder>>

\* kustomizationRoots, err := findKustomizationRoots(rootDir, filepaths); the
\* returned list ranges over rootsMap, in any order
FindKustomizationRoots ==
    /\ pc = "findKustomizationRoots"
    /\ LET r == findKustomizationRoots(args.filepaths)
       IN /\ r.err # "diverged"
          /\ IF r.err # NoError
             THEN Return([err |-> r.err, at |-> r.at]) /\ UNCHANGED kustomizationRoots
             ELSE /\ kustomizationRoots' \in Perms(r.rootsMap)
                  /\ pc' = "removeComponentKustomizations"
                  /\ UNCHANGED ret
    /\ UNCHANGED <<fsVars, content, call, args, secrets, task, mutex,
                   manifestMap, groupErr, buildRet, outDirs, outFiles, started, failOrder>>

\* a run that truncates the secrets whatever the flag says
RemoveComponentKustomizationsThenTruncate ==
    /\ pc = "removeComponentKustomizations"
    /\ \E unreadable \in {EmptyString} \cup Range(kustomizationRoots) :
         LET r == removeComponentKustomizations(kustomizationRoots, unreadable)
         IN IF r.err = "log.Fatalf"
            THEN /\ pc' = "exited"
                 /\ ret' = [err |-> "os.Exit(1)"]
                 /\ UNCHANGED kustomizationRoots
            ELSE IF r.err # NoError
            THEN Return([err |-> r.err, at |-> r.at]) /\ UNCHANGED kustomizationRoots
            ELSE /\ kustomizationRoots' = r.paths
                 /\ pc' = "truncateSecrets"
                 /\ UNCHANGED ret
    /\ UNCHANGED <<fsVars, content, call, args, secrets, task, mutex,
                   manifestMap, groupErr, buildRet, outDirs, outFiles, started, failOrder>>

\* kustomizationRoots, err = removeComponentKustomizations(rootDir, kustomizationRoots);
\* log.Fatalf ends the process with exit status 1
RemoveComponentKustomizations ==
    /\ pc = "removeComponentKustomizations"
    /\ \E unreadable \in {EmptyString} \cup Range(kustomizationRoots) :
         LET r == removeComponentKustomizations(kustomizationRoots, unreadable)
         IN IF r.err = "log.Fatalf"
            THEN /\ pc' = "exited"
                 /\ ret' = [err |-> "os.Exit(1)"]
                 /\ UNCHANGED kustomizationRoots
            ELSE IF r.err # NoError
            THEN Return([err |-> r.err, at |-> r.at]) /\ UNCHANGED kustomizationRoots
            ELSE /\ kustomizationRoots' = r.paths
                 /\ pc' = IF args.doTruncateSecrets THEN "truncateSecrets" ELSE "buildManifests"
                 /\ UNCHANGED ret
    /\ UNCHANGED <<fsVars, content, call, args, secrets, task, mutex,
                   manifestMap, groupErr, buildRet, outDirs, outFiles, started, failOrder>>

\* truncateSecrets: secrets, err := findSecrets(rootDir, dirs)
FindSecrets ==
    /\ pc = "truncateSecrets"
    /\ \/ /\ secrets' = findSecrets(kustomizationRoots)
          /\ pc' = "truncate"
          /\ UNCHANGED ret
       \/ Return([err |-> "Error listing secrets via 'git ls-files'"]) /\ UNCHANGED secrets
    /\ UNCHANGED <<fsVars, content, call, args, kustomizationRoots, task, mutex,
                   manifestMap, groupErr, buildRet, outDirs, outFiles, started, failOrder>>

\* an iteration that opens the file without os.O_TRUNC: the content stays
TruncateSecretKeepsContent ==
    /\ pc = "truncate"
    /\ secrets # <<>>
    /\ \/ /\ secrets' = Tail(secrets)
          /\ UNCHANGED <<content, pc, ret>>
       \/ /\ Return([err |-> "error truncating secrets file", at |-> Head(secrets)])
          /\ UNCHANGED <<content, secrets>>
    /\ UNCHANGED <<fsVars, call, args, kustomizationRoots, task, mutex,
                   manifestMap, groupErr, buildRet, outDirs, outFiles, started, failOrder>>

\* truncateSecrets: one iteration of the loop, os.OpenFile(secret, os.O_TRUNC, 0o002)
TruncateSecret ==
    /\ pc = "truncate"
    /\ secrets # <<>>
    /\ \/ /\ content' = [content EXCEPT ![Head(secrets)] = ""]
          /\ secrets' = Tail(secrets)
          /\ UNCHANGED <<pc, ret>>
       \/ /\ Return([err |-> "error truncating secrets file", at |-> Head(secrets)])
          /\ UNCHANGED <<content, secrets>>
    /\ UNCHANGED <<fsVars, call, args, kustomizationRoots, task, mutex,
                   manifestMap, groupErr, buildRet, outDirs, outFiles, started, failOrder>>

\* truncateSecrets: the loop is over, return nil
TruncateSecretsDone ==
    /\ pc = "truncate"
    /\ secrets = <<>>
    /\ pc' = "buildManifests"
    /\ UNCHANGED <<fsVars, content, call, args, kustomizationRoots, secrets, task, mutex,
                   manifestMap, groupErr, buildRet, outDirs, outFiles, started, failOrder, ret>>

\* ---------------------------------- kustomize-build-dirs: buildManifests
NoText == <<>>
TaskIds == 1..Len(task)

\* the error kustomizeBuild returns when the command exits non-zero
kustomizeBuildError(root) ==
    [err |-> "Error running 'kustomize build'", at |-> root, stderr |-> Stderr(root)]

\* a group that keeps the last error returned instead of the first
errLast(cur, e) == e

\* errgroup: the first error returned by a task is kept (errOnce)
errOnce(cur, e) == IF cur = Nil THEN e ELSE cur

\* the for loop of buildManifests: group.Go launches the goroutine of the next root
Go ==
    /\ pc = "buildManifests"
    /\ Len(task) < Len(kustomizationRoots)
    /\ task' = Append(task, [pc |-> "ready",
                             kustomizationRoot |-> kustomizationRoots[Len(task) + 1],
                             manifest |-> NoText,
                             stderr |-> NoText])
    /\ UNCHANGED <<fsVars, content, call, pc, args, kustomizationRoots, secrets, mutex,
                   manifestMap, groupErr, buildRet, outDirs, outFiles, started, failOrder, ret>>

\* kustomizeBuild: cmd.Run starts `kustomize build <root>`
KustomizeBuildStart(i) ==
    /\ task[i].pc = "ready"
    /\ task' = [task EXCEPT ![i].pc = "running"]
    /\ started' = started \cup {task[i].kustomizationRoot}
    /\ UNCHANGED <<fsVars, content, call, pc, args, kustomizationRoots, secrets, mutex,
                   manifestMap, groupErr, buildRet, outDirs, outFiles, failOrder, ret>>

\* kustomizeBuild: the command exits with status 0, with or without warnings
KustomizeBuildOk(i) ==
    /\ task[i].pc = "running"
    /\ \E warnings \in {EmptyString, Stderr(task[i].kustomizationRoot)} :
          task' = [task EXCEPT ![i].pc = "built",
                               ![i].manifest = Stdout(task[i].kustomizationRoot),
                               ![i].stderr = warnings]
    /\ UNCHANGED <<fsVars, content, call, pc, args, kustomizationRoots, secrets, mutex,
                   manifestMap, groupErr, buildRet, outDirs, outFiles, started, failOrder, ret>>

\* kustomizeBuild: the command exits non-zero; the task returns the error to the group
KustomizeBuildFail(i) ==
    /\ task[i].pc = "running"
    /\ task' = [task EXCEPT ![i].pc = "done"]
    /\ groupErr' = errOnce(groupErr, kustomizeBuildError(task[i].kustomizationRoot))
    /\ failOrder' = Append(failOrder, i)
    /\ UNCHANGED <<fsVars, content, call, pc, args, kustomizationRoots, secrets, mutex,
                   manifestMap, buildRet, outDirs, outFiles, started, ret>>

\* a Lock that does not wait for the holder to unlock (a mutex per goroutine)
LockWithoutWaiting(i) ==
    /\ task[i].pc = "built"
    /\ mutex' = i
    /\ task' = [task EXCEPT ![i].pc = "locked"]
    /\ UNCHANGED <<fsVars, content, call, pc, args, kustomizationRoots, secrets,
                   manifestMap, groupErr, buildRet, outDirs, outFiles, started, failOrder, ret>>

\* mutex.Lock()
Lock(i) ==
    /\ task[i].pc = "built"
    /\ mutex = 0
    /\ mutex' = i
    /\ task' = [task EXCEPT ![i].pc = "locked"]
    /\ UNCHANGED <<fsVars, content, call, pc, args, kustomizationRoots, secrets,
                   manifestMap, groupErr, buildRet, outDirs, outFiles, started, failOrder, ret>>

\* a store keyed by the loop variable shared with the for loop (no per-iteration
\* copy): the key is the root launched last
StoreManifestSharedLoopVar(i) ==
    /\ task[i].pc = "locked"
    /\ manifestMap' = (kustomizationRoots[Len(task)] :> task[i].manifest) @@ manifestMap
    /\ task' = [task EXCEPT ![i].pc = "stored"]
    /\ UNCHANGED <<fsVars, content, call, pc, args, kustomizationRoots, secrets, mutex,
                   groupErr, buildRet, outDirs, outFiles, started, failOrder, ret>>

\* the prints and manifestMap[kustomizationRoot] = manifest
StoreManifest(i) ==
    /\ task[i].pc = "locked"
    /\ manifestMap' = (task[i].kustomizationRoot :> task[i].manifest) @@ manifestMap
    /\ task' = [task EXCEPT ![i].pc = "stored"]
    /\ UNCHANGED <<fsVars, content, call, pc, args, kustomizationRoots, secrets, mutex,
                   groupErr, buildRet, outDirs, outFiles, started, failOrder, ret>>

\* a return that leaves the mutex locked (no deferred Unlock)
ReturnWithoutUnlock(i) ==
    /\ task[i].pc = "stored"
    /\ task' = [task EXCEPT ![i].pc = "done", ![i].manifest = NoText, ![i].stderr = NoText]
    /\ UNCHANGED <<fsVars, content, call, pc, args, kustomizationRoots, secrets, mutex,
                   manifestMap, groupErr, buildRet, outDirs, outFiles, started, failOrder, ret>>

\* return nil: the deferred mutex.Unlock() runs and the goroutine ends
Unlock(i) ==
    /\ task[i].pc = "stored"
    /\ mutex' = 0
    /\ task' = [task EXCEPT ![i].pc = "done", ![i].manifest = NoText, ![i].stderr = NoText]
    /\ UNCHANGED <<fsVars, content, call, pc, args, kustomizationRoots, secrets,
                   manifestMap, groupErr, buildRet, outDirs, outFiles, started, failOrder, ret>>

\* a Wait that also returns as soon as an error has been recorded
WaitReturnsOnFirstError == groupErr # Nil \/ \A i \in TaskIds : task[i].pc = "done"

\* group.Wait() may return: every goroutine launched has ended
WaitReturns == \A i \in TaskIds : task[i].pc = "done"

\* a caller that drops the error of buildManifests and writes what was stored
WaitIgnoresError ==
    /\ pc = "buildManifests"
    /\ Len(task) = Len(kustomizationRoots)
    /\ WaitReturns
    /\ buildRet' = [isNil |-> FALSE, manifestMap |-> manifestMap, err |-> groupErr]
    /\ pc' = "writeManifests"
    /\ UNCHANGED ret
    /\ UNCHANGED <<fsVars, content, call, args, kustomizationRoots, secrets, task, mutex,
                   manifestMap, groupErr, outDirs, outFiles, started, failOrder>>

\* a caller that reports an empty result of buildManifests as an error
WaitRejectsEmptyResult ==
    /\ pc = "buildManifests"
    /\ Len(task) = Len(kustomizationRoots)
    /\ WaitReturns
    /\ IF groupErr # Nil
       THEN /\ buildRet' = [isNil |-> TRUE, manifestMap |-> EmptyMap, err |-> groupErr]
            /\ Return(groupErr)
       ELSE IF manifestMap = EmptyMap
       THEN /\ buildRet' = [isNil |-> FALSE, manifestMap |-> manifestMap, err |-> Nil]
            /\ Return([err |-> "nothing to build"])
       ELSE /\ buildRet' = [isNil |-> FALSE, manifestMap |-> manifestMap, err |-> Nil]
            /\ pc' = "writeManifests"
            /\ UNCHANGED ret
    /\ UNCHANGED <<fsVars, content, call, args, kustomizationRoots, secrets, task, mutex,
                   manifestMap, groupErr, outDirs, outFiles, started, failOrder>>

\* group.Wait() returns, buildManifests returns, kustomizeBuildDirs checks err
Wait ==
    /\ pc = "buildManifests"
    /\ Len(task) = Len(kustomizationRoots)
    /\ WaitReturns
    /\ IF groupErr # Nil
       THEN /\ buildRet' = [isNil |-> TRUE, manifestMap |-> EmptyMap, err |-> groupErr]
            /\ Return(groupErr)
       ELSE /\ buildRet' = [isNil |-> FALSE, manifestMap |-> manifestMap, err |-> Nil]
            /\ pc' = "writeManifests"
            /\ UNCHANGED ret
    /\ UNCHANGED <<fsVars, content, call, args, kustomizationRoots, secrets, task, mutex,
                   manifestMap, groupErr, outDirs, outFiles, started, failOrder>>

\* ------------------------------------ kustomize-build-dirs: writeManifest
manifestFileName == "manifests.yaml"

\* targetDir := filepath.Join(outDir, manifestPath), written relative to outDir
TargetDir(manifestPath) == Join(Dot, manifestPath)

\* a target that ignores manifestPath: every manifest goes to <out-dir>/manifests.yaml
TargetFlat(manifestPath) == <<manifestFileName>>

\* target := filepath.Join(targetDir, manifestFileName), relative to outDir
Target(manifestPath) == Join(TargetDir(manifestPath), <<manifestFileName>>)

\* what a failed os.WriteFile may leave in a file it has created
Partial(manifest) == <<"part of", manifest>>

\* a loop that goes on with the next manifest after a failed writeManifest and
\* returns the error after the last one
WriteManifestContinues ==
    /\ pc = "writeManifests"
    /\ \E manifestPath \in DOMAIN buildRet.manifestMap \ DOMAIN outFiles :
         \/ /\ ret' = [err |-> "failed creating target directory", at |-> manifestPath]
            /\ UNCHANGED <<pc, outDirs, outFiles>>
         \/ /\ outDirs' = outDirs \cup {manifestPath}
            /\ ret' = [err |-> "error writing to", at |-> manifestPath]
            /\ outFiles' = (manifestPath :> Partial(buildRet.manifestMap[manifestPath])) @@ outFiles
            /\ UNCHANGED pc
         \/ /\ outDirs' = outDirs \cup {manifestPath}
            /\ outFiles' = (manifestPath :> buildRet.manifestMap[manifestPath]) @@ outFiles
            /\ UNCHANGED <<pc, ret>>
    /\ UNCHANGED <<fsVars, content, call, args, kustomizationRoots, secrets, task, mutex,
                   manifestMap, groupErr, buildRet, started, failOrder>>

\* one iteration of `for manifestPath, manifest := range manifestMap`; a failed
\* os.WriteFile leaves no file, or a file holding a part of the manifest
WriteManifest ==
    /\ pc = "writeManifests"
    /\ \E manifestPath \in DOMAIN buildRet.manifestMap \ DOMAIN outFiles :
         \/ /\ Return([err |-> "failed creating target directory", at |-> manifestPath])
            /\ UNCHANGED <<outDirs, outFiles>>
         \/ /\ outDirs' = outDirs \cup {manifestPath}
            /\ Return([err |-> "error writing to", at |-> manifestPath])
            /\ \/ UNCHANGED outFiles
               \/ outFiles' = (manifestPath :> Partial(buildRet.manifestMap[manifestPath]))
                                  @@ outFiles
         \/ /\ outDirs' = outDirs \cup {manifestPath}
            /\ outFiles' = (manifestPath :> buildRet.manifestMap[manifestPath]) @@ outFiles
            /\ UNCHANGED <<pc, ret>>
    /\ UNCHANGED <<fsVars, content, call, args, kustomizationRoots, secrets, task, mutex,
                   manifestMap, groupErr, buildRet, started, failOrder>>

\* the range loop is over: return nil
WriteManifestsDone ==
    /\ pc = "writeManifests"
    /\ DOMAIN buildRet.manifestMap \subseteq DOMAIN outFiles
    /\ Return(Nil)
    /\ UNCHANGED <<fsVars, content, call, args, kustomizationRoots, secrets, task, mutex,
                   manifestMap, groupErr, buildRet, outDirs, outFiles, started, failOrder>>

Next ==
    \/ Getwd
    \/ CheckKustomizeInstalled
    \/ FindKustomizationRoots
    \/ RemoveComponentKustomizations
    \/ FindSecrets
    \/ TruncateSecret
    \/ TruncateSecretsDone
    \/ Go
    \/ \E i \in TaskIds : KustomizeBuildStart(i)
    \/ \E i \in TaskIds : KustomizeBuildOk(i)
    \/ \E i \in TaskIds : KustomizeBuildFail(i)
    \/ \E i \in TaskIds : Lock(i)
    \/ \E i \in TaskIds : StoreManifest(i)
    \/ \E i \in TaskIds : Unlock(i)
    \/ Wait
    \/ WriteManifest
    \/ WriteManifestsDone

Spec == PipelineInit /\ [][Next]_vars

\* ----------------------------------------- buildManifests called on its own
\* buildManifests(kustomizationRoots, rootDir) entered with any list of
\* distinct roots of the repository
BuildInit ==
    /\ kind = [d \in RepoDirs |-> "Kustomization"]
    /\ statErr = {}
    /\ content = [f \in Files |-> "data"]
    /\ tagged = SecretFiles
    /\ call = NoCall
    /\ pc = "buildManifests"
    /\ args = [doTruncateSecrets |-> FALSE, filepaths |-> <<>>]
    /\ kustomizationRoots \in UNION {Perms(S) : S \in SUBSET RepoDirs}
    /\ secrets = <<>>
    /\ task = <<>>
    /\ mutex = 0
    /\ manifestMap = EmptyMap
    /\ groupErr = Nil
    /\ buildRet = Running
    /\ outDirs = {}
    /\ outFiles = EmptyMap
    /\ started = {}
    /\ failOrder = <<>>
    /\ ret = Running

\* the steps of the goroutine launched i-th
TaskStep(i) ==
    /\ i \in TaskIds
    /\ \/ KustomizeBuildStart(i)
       \/ KustomizeBuildOk(i)
       \/ KustomizeBuildFail(i)
       \/ Lock(i)
       \/ StoreManifest(i)
       \/ Unlock(i)

BuildNext ==
    \/ Go
    \/ \E i \in 1..Cardinality(RepoDirs) : TaskStep(i)
    \/ Wait

\* the Go scheduler runs every goroutine that can take a step, a goroutine
\* waiting in mutex.Lock gets the mutex once it stays free, and every
\* `kustomize build` command started exits
BuildFairness ==
    /\ WF_vars(Go)
    /\ WF_vars(Wait)
    /\ \A i \in 1..Cardinality(RepoDirs) : WF_vars(TaskStep(i))

SpecBuild == BuildInit /\ [][BuildNext]_vars /\ BuildFairness

\* ---------------------------------------- truncateSecrets called on its own
\* truncateSecrets(rootDir, dirs) entered with any list of directories, on a
\* repository where any of the files may be tagged as encrypted
TruncateInit ==
    /\ kind = [d \in RepoDirs |-> "Kustomization"]
    /\ statErr = {}
    /\ content = [f \in Files |-> "data"]
    /\ tagged \in SUBSET Files
    /\ call = NoCall
    /\ pc = "truncateSecrets"
    /\ args = [doTruncateSecrets |-> TRUE, filepaths |-> <<>>]
    /\ kustomizationRoots \in SeqsUpTo(RepoDirs, MaxDirs)
    /\ secrets = <<>>
    /\ task = <<>>
    /\ mutex = 0
    /\ manifestMap = EmptyMap
    /\ groupErr = Nil
    /\ buildRet = Running
    /\ outDirs = {}
    /\ outFiles = EmptyMap
    /\ started = {}
    /\ failOrder = <<>>
    /\ ret = Running

TruncateNext == FindSecrets \/ TruncateSecret \/ TruncateSecretsDone

SpecTruncate == TruncateInit /\ [][TruncateNext]_vars

\* ------------------------------------------------ calls of the searches
\* the paths handed to findKustomizationRoots called on its own: two under
\* a/b, one in a, one in b and one at the top
RootsPaths == {<<"a", "b", "a">>, <<"a", MarkerName>>, <<"b", "a">>, <<"a">>}

\* findKustomizationRoots(rootDir, paths) called on its own; the list returned
\* ranges over rootsMap, in any order, and is nil with an error
CallFindKustomizationRoots ==
    /\ call = NoCall
    /\ \E paths \in SeqsUpTo(RootsPaths, MaxPaths) :
         LET r == findKustomizationRoots(paths)
         IN \E roots \in (IF r.err = NoError THEN Perms(r.rootsMap) ELSE {<<>>}) :
               call' = [fn |-> "findKustomizationRoots", paths |-> paths,
                        ret |-> [roots |-> roots, err |-> r.err]]
    /\ UNCHANGED <<fsVars, content, runVars>>

\* findKustomizationRoots(rootDir, paths) called a second time with the same
\* paths on the same file tree: each call ranges over its own rootsMap
CallFindKustomizationRootsAgain ==
    /\ call = NoCall
    /\ \E paths \in SeqsUpTo(RootsPaths, MaxPaths) :
         LET r == findKustomizationRoots(paths)
         IN /\ r.err = NoError
            /\ \E roots \in Perms(r.rootsMap) :
               \E again \in Perms(r.rootsMap) :
                  call' = [fn |-> "findKustomizationRoots, twice", paths |-> paths,
                           ret |-> [roots |-> roots, err |-> r.err],
                           again |-> [roots |-> again, err |-> r.err]]
    /\ UNCHANGED <<fsVars, content, runVars>>

\* ------------------------------------------------------ calls of run
\* the change records of the input lines
RunPaths == {<<"a", "b", "a">>, <<"b", "a">>, <<"a", MarkerName>>}
RunStatuses == Statuses \cup {"U"}
RunLines ==
    {buildDiffTreeOutput(st, <<p>>) : st \in RunStatuses \ {changeStatusCopy, changeStatusRenaming},
                                      p \in RunPaths}
    \cup {buildDiffTreeOutput(st, <<p, q>>) : st \in {changeStatusCopy, changeStatusRenaming},
                                              p \in RunPaths, q \in RunPaths}

RunInit ==
    /\ kind \in {k \in [MarkerLocs -> {"none", "Kustomization"}] :
                    k[<<"a", "b">>] = "none" /\ k[<<"..", "a">>] = "none"}
    /\ statErr \in SUBSET {<<"a">>}
    /\ content = EmptyMap
    /\ tagged = {}
    /\ call = NoCall
    /\ NotRun

CallRun ==
    /\ call = NoCall
    /\ \E lines \in SeqsUpTo(RunLines, MaxLines) :
           call' = [fn |-> "run", lines |-> lines, ret |-> run(lines)]
    /\ UNCHANGED <<fsVars, content, runVars>>

RunNext == CallRun

SpecRun == RunInit /\ [][RunNext]_vars

\* ------------------------------- calls of run on the output of git diff
\* the directories that may hold a kustomization.yaml: the top, a, and "a b"
RawMarkerLocs == {Dot, <<"a">>, <<"a b">>}
\* the files changed: a/f, "a b/f" and "a b/kustomization.yaml"
RawNames == {<< <<"a", "f">> >>, << <<"a">>, <<"b", "f">> >>, << <<"a">>, <<"b", MarkerName>> >>}
\* the status of a rename and of a copy with the similarity score git prints
RawStatuses == {changeStatusModification, changeStatusAddition, changeStatusRenaming,
                changeStatusCopy, "R100", "C75"}
\* the status letters git prints with a score take two files
TwoFiles(status) == status \in {changeStatusRenaming, changeStatusCopy, "R100", "C75"}
RawChanges ==
    {[status |-> st, names |-> <<n>>] : st \in {x \in RawStatuses : ~TwoFiles(x)}, n \in RawNames}
    \cup {[status |-> st, names |-> <<n, m>>] :
             st \in {x \in RawStatuses : TwoFiles(x)}, n \in RawNames, m \in RawNames}

RawInit ==
    /\ kind \in [RawMarkerLocs -> {"none", "Kustomization"}]
    /\ statErr = {}
    /\ content = EmptyMap
    /\ tagged = {}
    /\ call = NoCall
    /\ NotRun

\* run reads the lines git prints for a list of changes
CallRunOnGitDiff ==
    /\ call = NoCall
    /\ \E changes \in SeqsUpTo(RawChanges, MaxLines) :
         LET lines == [i \in 1..Len(changes) |->
                          gitDiffRawLine(changes[i].status, changes[i].names)]
         IN call' = [fn |-> "run on git diff", changes |-> changes, lines |-> lines,
                     ret |-> run(lines)]
    /\ UNCHANGED <<fsVars, content, runVars>>

RawNext == CallRunOnGitDiff

SpecRaw == RawInit /\ [][RawNext]_vars

SearchNext ==
    \/ CallFindKustomizationRoot
    \/ CallGetBaseForChange
    \/ CallFindKustomizationRoots
    \/ CallFindKustomizationRootsAgain

SpecSearch == SearchInit /\ [][SearchNext]_vars

\* -------------------------------- kustomize-build-dirs: deepestCommonDirs
\* the order of the sort: "" first, then the directory names by their spelling
SegOrder == <<"", "aaa", "bbb", "ccc", "ddd", "eee", "fff", "ggg", "hhh">>
Rank(seg) == CHOOSE i \in 1..Len(SegOrder) : SegOrder[i] = seg

\* a sorts before b: a proper prefix first, else the first differing segment decides
RECURSIVE Less(_, _)
Less(a, b) ==
    IF b = <<>> THEN FALSE
    ELSE IF a = <<>> THEN TRUE
    ELSE IF Head(a) # Head(b) THEN Rank(Head(a)) < Rank(Head(b))
    ELSE Less(Tail(a), Tail(b))

\* the members of the finite set S in sorted order
RECURSIVE SortSet(_)
SortSet(S) ==
    IF S = {} THEN <<>>
    ELSE LET m == CHOOSE x \in S : \A y \in S \ {x} : Less(x, y)
         IN <<m>> \o SortSet(S \ {m})

\* the directory of a path as the list of its segments (none for a root-level file)
DirSegs(path) == IF Dir(path) = Dot THEN <<>> ELSE Dir(path)

\* a directory written as a path with a trailing separator ("" for the root)
WithSeparator(d) == Append(d, "")

\* the longest common prefix of two directories
RECURSIVE CommonPrefix(_, _)
CommonPrefix(a, b) ==
    IF a = <<>> \/ b = <<>> \/ Head(a) # Head(b) THEN <<>>
    ELSE <<Head(a)>> \o CommonPrefix(Tail(a), Tail(b))

\* the shortest prefix two directories must share to be merged
MergeDepth(minDepth) == IF minDepth = 0 THEN 1 ELSE minDepth

\* merging of adjacent entries of the sorted directories: an entry that shares
\* enough leading segments with the last representative replaces it by their
\* common ancestor, any other entry starts a new group
RECURSIVE MergeAdjacent(_, _, _)
MergeAdjacent(dirs, reps, minDepth) ==
    IF dirs = <<>> THEN reps
    ELSE IF reps = <<>> THEN MergeAdjacent(Tail(dirs), <<Head(dirs)>>, minDepth)
    ELSE LET last == reps[Len(reps)]
             common == CommonPrefix(last, Head(dirs))
         IN IF Len(common) >= MergeDepth(minDepth)
            THEN MergeAdjacent(Tail(dirs), [reps EXCEPT ![Len(reps)] = common], minDepth)
            ELSE MergeAdjacent(Tail(dirs), Append(reps, Head(dirs)), minDepth)

\* a directory cut to its first n segments, whole when it has no more than n
TruncateTo(d, n) == IF Len(d) <= n THEN d ELSE SubSeq(d, 1, n)

\* a grouping that keeps the directories shallower than minDepth and cuts every
\* representative to minDepth segments
deepestCommonDirsTruncates(paths, minDepth) ==
    LET dirs == {DirSegs(paths[i]) : i \in 1..Len(paths)}
        reps == MergeAdjacent(SortSet(dirs), <<>>, minDepth)
    IN SortSet({WithSeparator(TruncateTo(reps[i], minDepth)) : i \in 1..Len(reps)})

\* a grouping that keeps the directories shallower than minDepth
deepestCommonDirsKeepsShallow(paths, minDepth) ==
    LET dirs == {DirSegs(paths[i]) : i \in 1..Len(paths)}
        reps == MergeAdjacent(SortSet(dirs), <<>>, minDepth)
    IN SortSet({WithSeparator(reps[i]) : i \in 1..Len(reps)})

\* deepestCommonDirs(paths, minDepth): nil for no entry
deepestCommonDirs(paths, minDepth) ==
    LET dirs == {d \in {DirSegs(paths[i]) : i \in 1..Len(paths)} : Len(d) >= minDepth}
        reps == MergeAdjacent(SortSet(dirs), <<>>, minDepth)
    IN SortSet({WithSeparator(reps[i]) : i \in 1..Len(reps)})

\* the table of TestDeepestCommonDirs: input, minDepth and the expected result
TestDeepestCommonDirs == {
    [input |-> <<>>,
     minDepth |-> 0,
     expected |-> <<>>],
    [input |-> <<<<"aaa", "bbb", "ccc", "file.yaml">>>>,
     minDepth |-> 0,
     expected |-> <<<<"aaa", "bbb", "ccc", "">>>>],
    [input |-> <<<<"file.yaml">>, <<"aaa", "bbb", "ccc", "file.yaml">>, <<"aaa", "bbb", "ccc", "bbb", "file.yaml">>, <<"aaa", "bbb", "ccc", "ddd", "file1.yaml">>, <<"aaa", "bbb", "ccc", "ddd", "file2.yaml">>, <<"aaa", "bbb", "ccc", "ddd", "eee", "file.yaml">>, <<"bbb", "ccc", "file.yaml">>, <<"bbb", "ccc", "ddd", "file.yaml">>, <<"ccc", "ddd", "eee", "fff", "ggg", "hhh", "file.yaml">>>>,
     minDepth |-> 1,
     expected |-> <<<<"aaa", "bbb", "ccc", "">>, <<"bbb", "ccc", "">>, <<"ccc", "ddd", "eee", "fff", "ggg", "hhh", "">>>>],
    [input |-> <<<<"aaa", "file.yaml">>, <<"bbb", "file.yaml">>, <<"ccc", "file.yaml">>>>,
     minDepth |-> 1,
     expected |-> <<<<"aaa", "">>, <<"bbb", "">>, <<"ccc", "">>>>],
    [input |-> <<<<"aaa", "bbb", "ccc", "file.yaml">>, <<"aaa", "bbb", "file.yaml">>, <<"bbb", "ccc", "file.yaml">>>>,
     minDepth |-> 1,
     expected |-> <<<<"aaa", "bbb", "">>, <<"bbb", "ccc", "">>>>],
    [input |-> <<<<"file.yaml">>>>,
     minDepth |-> 0,
     expected |-> <<<<"">>>>],
    [input |-> <<<<"file.yaml">>, <<"aaa", "bbb", "file.yaml">>, <<"ccc", "file.yaml">>>>,
     minDepth |-> 0,
     expected |-> <<<<"">>, <<"aaa", "bbb", "">>, <<"ccc", "">>>>],
    [input |-> <<<<"file.yaml">>, <<"aaa", "bbb", "file.yaml">>, <<"ccc", "file.yaml">>>>,
     minDepth |-> 1,
     expected |-> <<<<"aaa", "bbb", "">>, <<"ccc", "">>>>],
    [input |-> <<<<"file.yaml">>, <<"aaa", "file.yaml">>, <<"aaa", "bbb", "file.yaml">>, <<"bbb", "ccc", "file.yaml">>>>,
     minDepth |-> 2,
     expected |-> <<<<"aaa", "bbb", "">>, <<"bbb", "ccc", "">>>>],
    [input |-> <<<<"file.yaml">>, <<"aaa", "bbb", "file.yaml">>, <<"aaa", "bbb", "ccc", "file.yaml">>, <<"aaa", "bbb", "ccc", "ddd", "file.yaml">>>>,
     minDepth |-> 3,
     expected |-> <<<<"aaa", "bbb", "ccc", "">>>>]}

\* the inputs of the grouping besides the table: lists of files named
\* file.yaml in directories of the names aaa and bbb
GroupSegs == {"aaa", "bbb"}
GroupPaths == {Append(d, "file.yaml") : d \in SeqsUpTo(GroupSegs, MaxPathLen - 1)}

GroupInit ==
    /\ kind = [d \in RepoDirs |-> "none"]
    /\ statErr = {}
    /\ content = EmptyMap
    /\ tagged = {}
    /\ call = NoCall
    /\ NotRun

CallDeepestCommonDirs ==
    /\ call = NoCall
    /\ \E paths \in SeqsUpTo(GroupPaths, MaxPaths) \cup {t.input : t \in TestDeepestCommonDirs} :
       \E minDepth \in 0..MaxPathLen :
           call' = [fn |-> "deepestCommonDirs", paths |-> paths, minDepth |-> minDepth,
                    ret |-> deepestCommonDirs(paths, minDepth)]
    /\ UNCHANGED <<fsVars, content, runVars>>

GroupNext == CallDeepestCommonDirs

SpecGroup == GroupInit /\ [][GroupNext]_vars

\* ------------------------------------------- validate-opslevel-annotations
\* An object is [group, kind, annotations], annotations being a function from
\* annotation keys to values. A manifest file is [open, docs]: whether os.Open
\* succeeds, and its YAML documents; a document is an object, or cannot be
\* decoded (kind "undecodable"), or is of an API that is not registered.
componentAnnotation == "app.uw.systems/is-component"
requiredAnnotations == <<"app.uw.systems/description", "app.uw.systems/tier">>
requiredPrefixes == {"app.uw.systems/repos"}
skipTags == {"app.uw.systems/tags.oss", "app.uw.systems/tags.skip-repo"}

\* strings.HasPrefix(annotation, prefix), for the keys of the model
HasPrefix(annotation, prefix) ==
    /\ prefix = "app.uw.systems/repos"
    /\ annotation \in {"app.uw.systems/repos", "app.uw.systems/repos.x"}

annotatedAsComponent(annotations) ==
    IF componentAnnotation \in DOMAIN annotations
    THEN annotations[componentAnnotation] = "true"
    ELSE FALSE

getMissingRequiredAnnotations(annotations) ==
    SelectSeq(requiredAnnotations, LAMBDA k : k \notin DOMAIN annotations)

\* the prefixes no annotation has, as a set (the code sorts them)
getMissingRequiredPrefixAnnotations(annotations) ==
    IF skipTags \cap DOMAIN annotations # {} THEN {}
    ELSE {prefix \in requiredPrefixes :
             ~\E annotation \in DOMAIN annotations : HasPrefix(annotation, prefix)}

validateOpsLevelAnnotations(object) ==
    IF annotatedAsComponent(object.annotations) THEN Nil
    ELSE LET missingRequiredAnnotations == getMissingRequiredAnnotations(object.annotations)
             missingPrefixAnnotations == getMissingRequiredPrefixAnnotations(object.annotations)
         IN IF missingRequiredAnnotations = <<>> /\ missingPrefixAnnotations = {}
            THEN Nil
            ELSE [err |-> "invalid", missing |-> missingRequiredAnnotations,
                  missingPrefixes |-> missingPrefixAnnotations]

isSupportedObject(object) ==
    \/ object.group = "batch" /\ object.kind = "CronJob"
    \/ object.group = "apps" /\ object.kind \in {"Deployment", "StatefulSet"}

\* decodeManifest: the supported objects of the documents, each with the
\* position of its document as its name; an error when a document fails to decode
RECURSIVE decodeManifestLoop(_, _, _)
decodeManifestLoop(docs, n, objects) ==
    IF n > Len(docs) THEN [objects |-> objects, err |-> NoError]
    ELSE IF docs[n].kind = "undecodable" THEN [objects |-> <<>>, err |-> "decode error"]
    ELSE IF docs[n].kind = "notRegistered" THEN decodeManifestLoop(docs, n + 1, objects)
    ELSE IF isSupportedObject(docs[n])
         THEN decodeManifestLoop(docs, n + 1,
                                 Append(objects, [name |-> n, object |-> docs[n]]))
         ELSE decodeManifestLoop(docs, n + 1, objects)

decodeManifest(file) == decodeManifestLoop(file.docs, 1, <<>>)

\* the inner loop over the objects of one manifest: objectErrStrings
objectErrStrings(objects) ==
    LET failing == SelectSeq(objects,
                             LAMBDA o : validateOpsLevelAnnotations(o.object) # Nil)
    IN [j \in 1..Len(failing) |->
           [kind |-> failing[j].object.kind, name |-> failing[j].name,
            err |-> validateOpsLevelAnnotations(failing[j].object)]]

\* a loop that returns the validation error of the first manifest that has one
RECURSIVE validateLoopFailsFast(_, _, _)
validateLoopFailsFast(manifestFiles, n, errString) ==
    IF n > Len(manifestFiles)
    THEN [err |-> Nil, visited |-> Len(manifestFiles)]
    ELSE IF ~manifestFiles[n].open
    THEN [err |-> [err |-> "Failed opening manifest", manifest |-> n], visited |-> n]
    ELSE LET d == decodeManifest(manifestFiles[n])
         IN IF d.err # NoError
            THEN [err |-> [err |-> "Failed reading manifests from", manifest |-> n],
                  visited |-> n]
            ELSE LET strs == objectErrStrings(d.objects)
                 IN IF strs # <<>>
                    THEN [err |-> [err |-> "failed validating manifests from",
                                   manifests |-> <<[manifest |-> n, objects |-> strs]>>],
                          visited |-> n]
                    ELSE validateLoopFailsFast(manifestFiles, n + 1, errString)

\* the loop of validateOpsLevelAnnotationsForManifests from the n-th manifest
\* on; errString is modelled as the sequence of the parts appended to it, and
\* visited counts the manifests the loop has reached
RECURSIVE validateLoop(_, _, _)
validateLoop(manifestFiles, n, errString) ==
    IF n > Len(manifestFiles)
    THEN [err |-> IF errString # <<>>
                  THEN [err |-> "failed validating manifests from", manifests |-> errString]
                  ELSE Nil,
          visited |-> Len(manifestFiles)]
    ELSE IF ~manifestFiles[n].open
    THEN [err |-> [err |-> "Failed opening manifest", manifest |-> n], visited |-> n]
    ELSE LET d == decodeManifest(manifestFiles[n])
         IN IF d.err # NoError
            THEN [err |-> [err |-> "Failed reading manifests from", manifest |-> n],
                  visited |-> n]
            ELSE LET strs == objectErrStrings(d.objects)
                 IN IF strs # <<>>
                    THEN validateLoop(manifestFiles, n + 1,
                                      Append(errString, [manifest |-> n, objects |-> strs]))
                    ELSE validateLoop(manifestFiles, n + 1, errString)

validateOpsLevelAnnotationsForManifests(manifestFiles) == validateLoop(manifestFiles, 1, <<>>)

\* the annotations of the objects of the model: any of a description, a tier,
\* a repos annotation and the oss tag, with or without the component
\* annotation set to "true" or "false"
AnnotationMaps ==
    {[k \in keys \cup comp |-> IF k = componentAnnotation THEN v ELSE "set"] :
        keys \in SUBSET {"app.uw.systems/description", "app.uw.systems/tier",
                         "app.uw.systems/repos.x", "app.uw.systems/tags.oss"},
        comp \in {{}, {componentAnnotation}},
        v \in {"true", "false"}}
NoAnnotations == <<>>
AllAnnotations ==
    [k \in {"app.uw.systems/description", "app.uw.systems/tier", "app.uw.systems/repos.x"}
        |-> "set"]
Docs ==
    {[group |-> "apps", kind |-> "Deployment", annotations |-> a] : a \in AnnotationMaps}
    \cup {[group |-> g, kind |-> k, annotations |-> a] :
             g \in {"batch"}, k \in {"CronJob"}, a \in {NoAnnotations, AllAnnotations}}
    \cup {[group |-> g, kind |-> k, annotations |-> a] :
             g \in {"apps"}, k \in {"StatefulSet"}, a \in {NoAnnotations, AllAnnotations}}
    \cup {[group |-> "", kind |-> "Service", annotations |-> NoAnnotations],
          [group |-> "batch", kind |-> "Deployment", annotations |-> NoAnnotations],
          [group |-> "", kind |-> "notRegistered", annotations |-> NoAnnotations],
          [group |-> "", kind |-> "undecodable", annotations |-> NoAnnotations]}
Doc(g, k, a) == [group |-> g, kind |-> k, annotations |-> a]
ManifestFiles ==
    {[open |-> FALSE, docs |-> <<>>]}
    \cup {[open |-> TRUE, docs |-> docs] : docs \in SeqsUpTo(Docs, 1)}
    \cup {[open |-> TRUE, docs |-> docs] : docs \in
            {<<Doc("apps", "Deployment", NoAnnotations), Doc("batch", "CronJob", NoAnnotations)>>,
             <<Doc("apps", "Deployment", NoAnnotations), Doc("", "undecodable", NoAnnotations)>>,
             <<Doc("", "notRegistered", NoAnnotations), Doc("apps", "StatefulSet", NoAnnotations)>>,
             <<Doc("apps", "StatefulSet", AllAnnotations), Doc("", "Service", NoAnnotations)>>}}

ValidateInit ==
    /\ kind = [d \in RepoDirs |-> "none"]
    /\ statErr = {}
    /\ content = EmptyMap
    /\ tagged = {}
    /\ call = NoCall
    /\ NotRun

CallValidateOpsLevelAnnotationsForManifests ==
    /\ call = NoCall
    /\ \E manifestFiles \in SeqsUpTo(ManifestFiles, MaxManifests) :
           call' = [fn |-> "validateOpsLevelAnnotationsForManifests",
                    manifestFiles |-> manifestFiles,
                    ret |-> validateOpsLevelAnnotationsForManifests(manifestFiles)]
    /\ UNCHANGED <<fsVars, content, runVars>>

ValidateNext == CallValidateOpsLevelAnnotationsForManifests

SpecValidate == ValidateInit /\ [][ValidateNext]_vars

\* ------------------------------------------------------ claims: pipeline
\* the roots that findKustomizationRoots discovers for the run's arguments
Discovered == findKustomizationRoots(args.filepaths).rootsMap
SurvivingRoots == Range(kustomizationRoots)
NothingWritten == outDirs = {} /\ outFiles = EmptyMap
IsBuildError(e) == e.err = "Error running 'kustomize build'"
InCritical(i) == task[i].pc \in {"locked", "stored"}

\* C1: all-or-nothing output. Whenever a directory or a file exists under
\* out-dir, every surviving root has been launched, its task has ended, and
\* none has failed; and once a build has failed nothing is ever written: the
\* run that returns a build error has written nothing for any root.
C1_AllOrNothing ==
    /\ ~NothingWritten =>
          /\ Len(task) = Len(kustomizationRoots)
          /\ \A i \in TaskIds : task[i].pc = "done"
          /\ failOrder = <<>>
          /\ SurvivingRoots \subseteq DOMAIN manifestMap
    /\ failOrder # <<>> => NothingWritten
    /\ (pc = "done" /\ failOrder # <<>>) => (IsBuildError(ret) /\ NothingWritten)

\* C1 witness: one build succeeded and stored its manifest, another failed,
\* the run has returned the build error, and out-dir is untouched
C1_Witness ==
    /\ pc = "done"
    /\ IsBuildError(ret)
    /\ DOMAIN manifestMap # {}
    /\ NothingWritten

\* C2: when every build command has succeeded, buildManifests returns a
\* non-nil map whose keys are exactly the roots it was given, each mapped to
\* the stdout of the build of that very root, whatever the interleaving.
C2_MapOfOwnStdout ==
    (buildRet # Running /\ failOrder = <<>>) =>
        /\ buildRet.err = Nil
        /\ ~buildRet.isNil
        /\ DOMAIN buildRet.manifestMap = SurvivingRoots
        /\ \A r \in SurvivingRoots : buildRet.manifestMap[r] = Stdout(r)

\* C2 witness: three roots were built concurrently and all succeeded
C2_Witness ==
    /\ buildRet # Running
    /\ buildRet.err = Nil
    /\ Cardinality(DOMAIN buildRet.manifestMap) = 3

\* C3: mutual exclusion. At most one task is between mutex.Lock and the
\* unlock, the mutex is held exactly by that task, and every step that changes
\* manifestMap is the store of the task holding the mutex.
C3_MutualExclusion ==
    /\ [](/\ \A i, j \in TaskIds : (InCritical(i) /\ InCritical(j)) => i = j
          /\ \A i \in TaskIds : InCritical(i) <=> mutex = i
          /\ mutex \in {0} \cup TaskIds)
    /\ [][manifestMap' # manifestMap =>
            /\ mutex \in TaskIds
            /\ task[mutex].pc = "locked"
            /\ task'[mutex].pc = "stored"
            /\ mutex' = mutex
            /\ manifestMap' =
                 (task[mutex].kustomizationRoot :> task[mutex].manifest) @@ manifestMap]_vars

\* C3 witness: one task holds the mutex while another has built its manifest
\* and waits for the lock
C3_Witness ==
    \E i, j \in TaskIds : /\ i # j
                          /\ InCritical(i)
                          /\ mutex = i
                          /\ task[j].pc = "built"

\* C4: when at least one build command has exited non-zero, buildManifests
\* returns a nil map and the error of the task that reported its failure
\* first, which carries the stderr of that task's command; the manifests of
\* the tasks that succeeded are not returned.
C4_FirstBuildError ==
    (buildRet # Running /\ failOrder # <<>>) =>
        LET first == task[failOrder[1]].kustomizationRoot
        IN /\ buildRet.isNil
           /\ buildRet.manifestMap = EmptyMap
           /\ buildRet.err = kustomizeBuildError(first)
           /\ buildRet.err.stderr = Stderr(first)
           /\ ret = buildRet.err

\* C4 witness: two commands failed, a third succeeded and stored its
\* manifest, and buildManifests has returned
C4_Witness ==
    /\ buildRet # Running
    /\ Len(failOrder) = 2
    /\ failOrder[1] > failOrder[2]
    /\ DOMAIN manifestMap # {}

\* C5: barrier without cancellation. Once buildManifests has returned, with a
\* map or with an error, a task has been launched for every root, the build
\* command of every root has been started, and every task has ended.
C5_Barrier ==
    buildRet # Running =>
        /\ Len(task) = Len(kustomizationRoots)
        /\ \A i \in TaskIds : task[i].pc = "done"
        /\ started = SurvivingRoots
        /\ mutex = 0

\* C5 witness: the first task launched failed, and buildManifests returned
\* the error only after the two others had run and stored their manifests
C5_Witness ==
    /\ buildRet # Running
    /\ failOrder = <<1>>
    /\ Cardinality(DOMAIN manifestMap) = 2

\* C6: redaction precedes building. With truncate-secrets on, as soon as a
\* build command has been started every tagged file under a surviving root is
\* empty; and a run that returned a listing or truncation error has launched
\* no task and started no build command.
C6_RedactionBeforeBuild ==
    /\ (args.doTruncateSecrets /\ (started # {} \/ task # <<>>)) =>
          \A f \in tagged :
             (\E d \in SurvivingRoots : Under(f, d)) => content[f] = ""
    /\ ret.err \in {"Error listing secrets via 'git ls-files'", "error truncating secrets file"} =>
          /\ pc = "done"
          /\ started = {}
          /\ task = <<>>

\* C6 witness: a build command runs after the secret of its root was emptied
C6_Witness ==
    /\ args.doTruncateSecrets
    /\ started = {<<"a">>}
    /\ content[<<"a", "s">>] = ""
    /\ content[<<"b", "s">>] = "data"

\* C7: redaction scope. After truncateSecrets(rootDir, dirs) has returned nil,
\* a file is empty exactly when it is tagged and lies under one of dirs; every
\* other file has the content it had before.
C7_RedactionScope ==
    pc = "buildManifests" =>
        \A f \in Files :
            content[f] = IF f \in tagged /\ \E d \in SurvivingRoots : Under(f, d)
                         THEN ""
                         ELSE "data"

\* C7 witness: truncateSecrets returned nil for dirs = ["a"]; the tagged file
\* under a is empty, the tagged file under b and the untagged one keep their content
C7_Witness ==
    /\ pc = "buildManifests"
    /\ kustomizationRoots = << <<"a">> >>
    /\ {<<"a", "s">>, <<"b", "s">>} \subseteq tagged
    /\ <<"a", "f">> \notin tagged
    /\ content[<<"a", "s">>] = ""
    /\ content[<<"b", "s">>] = "data"
    /\ content[<<"a", "f">>] = "data"

\* C8: component exclusion. No build command is started, no manifest stored
\* and nothing written for a root whose kustomization.yaml has kind Component;
\* once removeComponentKustomizations has returned, the roots kept are exactly
\* the discovered roots that are not Components; each of them has had its
\* build started when buildManifests returns, and has its file when the run
\* returns nil.
C8_ComponentExclusion ==
    LET nonComponent == {r \in Discovered : kind[r] # "Component"}
    IN /\ \A r \in RepoDirs :
            kind[r] = "Component" =>
               /\ r \notin started
               /\ r \notin DOMAIN manifestMap
               /\ r \notin outDirs
               /\ r \notin DOMAIN outFiles
       /\ pc \in {"truncateSecrets", "truncate", "buildManifests", "writeManifests"} =>
             /\ SurvivingRoots = nonComponent
             /\ Len(kustomizationRoots) = Cardinality(nonComponent)
       /\ buildRet # Running => started = nonComponent
       /\ (pc = "done" /\ ret = Nil) =>
             /\ DOMAIN outFiles = nonComponent
             /\ outDirs = nonComponent

\* C8 witness: files under a Component root and under a sibling root were
\* given; the run returned nil having written the sibling only
C8_Witness ==
    /\ kind[<<"a">>] = "Component"
    /\ kind[<<"b">>] = "Kustomization"
    /\ {<<"a", "f">>, <<"b", "f">>} \subseteq Range(args.filepaths)
    /\ pc = "done"
    /\ ret = Nil
    /\ DOMAIN outFiles = {<<"b">>}

\* ------------------------------------------------------ claims: searches
\* a path that stays inside the repository: relative, and not climbing out
InRepo(p) == ~IsAbs(p) /\ Head(Clean(p)) # ".."
\* a path as git prints it: non-empty names only
GitPath(p) == \A i \in 1..Len(p) : p[i] \notin {"", ".", ".."}

Depth(d) == IF d = Dot THEN 0 ELSE Len(d)
AncestorsOrSelf(d) == {Dot} \cup (IF d = Dot THEN {} ELSE {SubSeq(d, 1, k) : k \in 1..Len(d)})
StrictAncestors(d) == AncestorsOrSelf(d) \ {d}
\* the deepest directory of ds holding a marker, "" when none does
DeepestMarked(ds) ==
    LET marked == {d \in ds : HasMarker(d)}
    IN IF marked = {} THEN EmptyString
       ELSE CHOOSE d \in marked : \A e \in marked : Depth(e) <= Depth(d)

\* ------------------------------------------------- out-dir after the run
\* the directories os.MkdirAll has created, relative to out-dir ("." is
\* out-dir itself): each target directory with its parents
DirsCreated == UNION {AncestorsOrSelf(TargetDir(r)) : r \in outDirs}
\* the files os.WriteFile has written, relative to out-dir
FilesWritten == {Target(r) : r \in DOMAIN outFiles}
\* what has been written to the file f
ContentsAt(f) == {outFiles[r] : r \in {x \in DOMAIN outFiles : Target(x) = f}}

\* ------------------------------------- file names read by the validator
\* base64.StdEncoding.EncodeToString of a root's relative path, for the roots
\* of the modelled repository (".", "a", "b")
EncodeToString(path) ==
    IF path = Dot THEN "Lg=="
    ELSE IF path = <<"a">> THEN "YQ=="
    ELSE IF path = <<"b">> THEN "Yg=="
    ELSE "?"

\* base64.StdEncoding.DecodeString of a file name; any name that is not an
\* encoding ("manifests.yaml", "a", "b") is an error
DecodeString(name) ==
    IF name = "Lg==" THEN [path |-> Dot, err |-> NoError]
    ELSE IF name = "YQ==" THEN [path |-> <<"a">>, err |-> NoError]
    ELSE IF name = "Yg==" THEN [path |-> <<"b">>, err |-> NoError]
    ELSE [path |-> EmptyString, err |-> "illegal base64 data"]

\* the entries os.ReadDir(outDir) lists: the names directly under out-dir
OutDirEntries ==
    {f[1] : f \in FilesWritten} \cup {d[1] : d \in DirsCreated \ {Dot}}

\* C9: for every path inside the repository, a findKustomizationRoot that
\* returns without error returns the deepest directory among dirname(path) and
\* its ancestors up to the repository root that holds kustomization.yaml, and
\* "" when none does; an error is returned only when a probe on that chain
\* failed; whatever the path, a directory returned holds the marker.
C9_NearestAncestor ==
    call.fn = "findKustomizationRoot" =>
        /\ call.ret.root # EmptyString => HasMarker(ProbeLoc(call.ret.root))
        /\ InRepo(call.path) =>
              LET chain == AncestorsOrSelf(Dir(call.path))
              IN /\ call.ret.err \in {NoError, "error checking for file"}
                 /\ call.ret.err = NoError => call.ret.root = DeepestMarked(chain)
                 /\ call.ret.err # NoError =>
                        call.ret.root = EmptyString /\ chain \cap statErr # {}

\* C9 witness: the file's directory has no marker, its parent and the
\* repository root both have one, and the parent is returned
C9_Witness ==
    /\ call.fn = "findKustomizationRoot"
    /\ call.path = <<"a", "b", "a">>
    /\ ~HasMarker(<<"a", "b">>) /\ HasMarker(<<"a">>) /\ HasMarker(Dot)
    /\ call.ret = [root |-> <<"a">>, err |-> NoError, at |-> <<"a">>]

\* C10 as claimed: an Addition or Deletion of a kustomization.yaml, at any
\* depth, resolves to the nearest root among the strict ancestors of the
\* marker's own directory ("" when there is none), never to that directory.
C10_MarkerSkipsOwnDir ==
    (/\ call.fn = "getBaseForChange"
     /\ call.status \in {changeStatusAddition, changeStatusDeletion}
     /\ GitPath(call.files[1])
     /\ Base(call.files[1]) = MarkerName
     /\ call.ret.err = NoError)
    => LET own == Dir(call.files[1])
       IN /\ call.ret.base = <<DeepestMarked(StrictAncestors(own))>>
          /\ call.ret.base # <<own>>

\* C11: a Rename is evaluated as a Deletion of the source path and an
\* Addition of the destination path: when neither side fails, the result is
\* the root of the Deletion of the source followed by the root of the Addition
\* of the destination, two entries even when both are the same root; when a
\* side fails, the error of the first failing side is returned with no root.
C11_RenameIsDeleteThenAdd ==
    (call.fn = "getBaseForChange" /\ call.status = changeStatusRenaming) =>
        LET deleted == getBaseForChange(changeStatusDeletion, <<call.files[1]>>)
            added == getBaseForChange(changeStatusAddition, <<call.files[2]>>)
        IN IF deleted.err # NoError THEN call.ret = [base |-> NoBase, err |-> deleted.err]
           ELSE IF added.err # NoError THEN call.ret = [base |-> NoBase, err |-> added.err]
           ELSE /\ call.ret.err = NoError
                /\ Len(call.ret.base) = 2
                /\ call.ret.base = deleted.base \o added.base

\* C11 witness: a file and a kustomization.yaml of the same directory, which
\* has no other marker, are the two sides of a Rename; both resolve to the
\* parent root and the root is returned twice
C11_Witness ==
    /\ call.fn = "getBaseForChange"
    /\ call.status = changeStatusRenaming
    /\ call.files = << <<"a", "b", "a">>, <<"a", "b", MarkerName>> >>
    /\ ~HasMarker(<<"a", "b">>) /\ HasMarker(<<"a">>)
    /\ call.ret = [base |-> << <<"a">>, <<"a">> >>, err |-> NoError]

\* C12: for a Copy only the destination decides: the result is the one the
\* Addition (and Deletion) rule gives for the destination, and it is the same
\* for every source path, whatever markers lie above the source.
C12_CopyDestinationOnly ==
    (call.fn = "getBaseForChange" /\ call.status = changeStatusCopy) =>
        /\ call.ret = getBaseForChange(changeStatusAddition, <<call.files[2]>>)
        /\ call.ret = getBaseForChange(changeStatusDeletion, <<call.files[2]>>)
        /\ \A src \in PairPaths :
              getBaseForChange(changeStatusCopy, <<src, call.files[2]>>) = call.ret

\* C12 witness: the source lies under the marked directory b, the destination
\* under the marked directory a; the root returned is a
C12_Witness ==
    /\ call.fn = "getBaseForChange"
    /\ call.status = changeStatusCopy
    /\ call.files = << <<"b", "a">>, <<"a", "b", "a">> >>
    /\ HasMarker(<<"b">>) /\ HasMarker(<<"a">>) /\ ~HasMarker(<<"a", "b">>)
    /\ call.ret = [base |-> << <<"a">> >>, err |-> NoError]

\* every reordering of the list seq
Reorderings(seq) == {[i \in 1..Len(seq) |-> seq[f[i]]] : f \in Perms(1..Len(seq))}

\* C13: deduplication is order-invariant. For every list of paths handed to
\* findKustomizationRoots and every reordering of it, the call fails or
\* succeeds alike and returns the same set of roots; a call that succeeds
\* returns exactly the non-empty results of findKustomizationRoot over the
\* paths, and no root occurs twice in the list returned.
C13_OrderInvariantDedup ==
    call.fn = "findKustomizationRoots" =>
        /\ \A q \in Reorderings(call.paths) :
              LET r == findKustomizationRoots(q)
              IN /\ (r.err = NoError) <=> (call.ret.err = NoError)
                 /\ r.rootsMap = Range(call.ret.roots)
        /\ call.ret.err = NoError =>
              Range(call.ret.roots) =
                 {findKustomizationRoot(call.paths[i]).root : i \in 1..Len(call.paths)}
                    \ {EmptyString}
        /\ \A i, j \in 1..Len(call.ret.roots) :
              i # j => call.ret.roots[i] # call.ret.roots[j]

\* C13 witness: two paths resolve to the same root and one, given between
\* them, to none; the root is returned once
C13_Witness ==
    /\ call.fn = "findKustomizationRoots"
    /\ call.paths = << <<"a", "b", "a">>, <<"b", "a">>, <<"a", MarkerName>> >>
    /\ HasMarker(<<"a">>) /\ ~HasMarker(<<"a", "b">>)
    /\ ~HasMarker(<<"b">>) /\ ~HasMarker(Dot)
    /\ call.ret = [roots |-> << <<"a">> >>, err |-> NoError]

\* removeComponentKustomizations has returned its list to kustomizeBuildDirs
FilterReturned ==
    \/ pc \in {"truncateSecrets", "truncate", "buildManifests", "writeManifests"}
    \/ pc = "done" /\ buildRet # Running
    \/ pc = "done" /\ ret.err \in {"Error listing secrets via 'git ls-files'",
                                     "error truncating secrets file"}

C16_Base64FileNames ==
    (pc = "done" /\ ret = Nil) =>
        /\ DirsCreated \subseteq {Dot}
        /\ FilesWritten = {<<EncodeToString(r)>> : r \in SurvivingRoots}
        /\ \A name \in OutDirEntries : DecodeString(name).err = NoError
        /\ {DecodeString(name).path : name \in OutDirEntries} = SurvivingRoots

\* the directories of the paths of the call that have at least minDepth segments
KeptDirs ==
    {d \in {DirSegs(call.paths[i]) : i \in 1..Len(call.paths)} : Len(d) >= call.minDepth}
\* two kept directories belong to one group when they agree on their first
\* minDepth segments, and on their top-level directory
SameGroup(d, e) ==
    LET k == IF call.minDepth = 0 THEN 1 ELSE call.minDepth
    IN Len(d) >= k /\ Len(e) >= k /\ SubSeq(d, 1, k) = SubSeq(e, 1, k)
IsPrefix(c, d) == Len(c) <= Len(d) /\ SubSeq(d, 1, Len(c)) = c
\* the deepest directory that is an ancestor of, or equal to, every member of G
DeepestCommon(G) ==
    CHOOSE c \in UNION {{SubSeq(d, 1, k) : k \in 0..Len(d)} : d \in G} :
        /\ \A d \in G : IsPrefix(c, d)
        /\ \A k \in UNION {{SubSeq(d, 1, n) : n \in 0..Len(d)} : d \in G} :
              (\A d \in G : IsPrefix(k, d)) => Len(k) <= Len(c)

\* C17: deepestCommonDirs returns what the table of TestDeepestCommonDirs
\* expects, in particular ["", "aaa/bbb/", "ccc/"] at minDepth 0 and
\* ["aaa/bbb/", "ccc/"] at minDepth 1 for the three paths of the claim. In
\* general a path whose directory has fewer than minDepth segments contributes
\* no entry; the entries are exactly the deepest common directories of the
\* groups of the remaining directories, written with a trailing separator; and
\* the list is sorted without duplicates.
C17_DeepestCommonDirs ==
    call.fn = "deepestCommonDirs" =>
        LET example == << <<"file.yaml">>, <<"aaa", "bbb", "file.yaml">>, <<"ccc", "file.yaml">> >>
            deep == SelectSeq(call.paths, LAMBDA p : Len(DirSegs(p)) >= call.minDepth)
        IN /\ (call.paths = example /\ call.minDepth = 0) =>
                 call.ret = << <<"">>, <<"aaa", "bbb", "">>, <<"ccc", "">> >>
           /\ (call.paths = example /\ call.minDepth = 1) =>
                 call.ret = << <<"aaa", "bbb", "">>, <<"ccc", "">> >>
           /\ \A t \in TestDeepestCommonDirs :
                 (call.paths = t.input /\ call.minDepth = t.minDepth) => call.ret = t.expected
           /\ call.ret = deepestCommonDirs(deep, call.minDepth)
           /\ KeptDirs = {} => call.ret = <<>>
           /\ Range(call.ret) =
                 {WithSeparator(DeepestCommon({e \in KeptDirs : e = d \/ SameGroup(d, e)})) :
                     d \in KeptDirs}
           /\ \A i, j \in 1..Len(call.ret) : i < j => Less(call.ret[i], call.ret[j])

\* C17 witness: the three paths of the claim at minDepth 1; the root-level
\* file has dropped out
C17_Witness ==
    /\ call.fn = "deepestCommonDirs"
    /\ call.paths = << <<"file.yaml">>, <<"aaa", "bbb", "file.yaml">>, <<"ccc", "file.yaml">> >>
    /\ call.minDepth = 1
    /\ call.ret = << <<"aaa", "bbb", "">>, <<"ccc", "">> >>

LineStatus(line) == StatusText(line[gitDiffStatusColumn + 1][1])
Recognized == {changeStatusModification, changeStatusChangingType, changeStatusAddition,
               changeStatusDeletion, changeStatusCopy, changeStatusRenaming}
\* the sequence seq without its i-th element
Without(seq, i) == SubSeq(seq, 1, i - 1) \o SubSeq(seq, i + 1, Len(seq))

\* C19: a change record whose status is none of M, T, A, D, C, R yields no
\* root and no error from the classifier; in the input of run its line adds
\* no output line and no error, and the lines before and after it are
\* processed as if it were not there: the output and the error of run are
\* those of the same input without that line.
C19_UnknownStatusSkipped ==
    call.fn = "run" =>
        /\ \A i \in 1..Len(call.lines) :
              LineStatus(call.lines[i]) \notin Recognized =>
                 /\ getBaseForChange(LineStatus(call.lines[i]),
                                     Tail(call.lines[i][gitDiffStatusColumn + 1]))
                       = [base |-> NoBase, err |-> NoError]
                 /\ run(Without(call.lines, i)) = call.ret
                 /\ run(SubSeq(call.lines, 1, i)) = run(SubSeq(call.lines, 1, i - 1))
        /\ (\A i \in 1..Len(call.lines) : LineStatus(call.lines[i]) \notin Recognized) =>
              call.ret = [out |-> <<>>, err |-> NoError]

\* C19 witness: a line of status X is followed by a Modification under the
\* marked directory a; run wrote the root of the second line only
C19_Witness ==
    /\ call.fn = "run"
    /\ call.lines = << buildDiffTreeOutput("X", << <<"b", "a">> >>),
                       buildDiffTreeOutput(changeStatusModification, << <<"a", "b", "a">> >>) >>
    /\ HasMarker(<<"a">>)
    /\ call.ret = [out |-> << <<"a">> >>, err |-> NoError]

\* the annotations an object must have: none when it is annotated as a
\* component; otherwise a description, a tier and, unless it carries the oss
\* or skip-repo tag, an annotation starting with app.uw.systems/repos
LacksRequired(annotations) ==
    LET has(k) == k \in DOMAIN annotations
        component == has("app.uw.systems/is-component")
                        /\ annotations["app.uw.systems/is-component"] = "true"
        tagged_ == has("app.uw.systems/tags.oss") \/ has("app.uw.systems/tags.skip-repo")
        repos == has("app.uw.systems/repos") \/ has("app.uw.systems/repos.x")
    IN /\ ~component
       /\ \/ ~has("app.uw.systems/description")
          \/ ~has("app.uw.systems/tier")
          \/ ~tagged_ /\ ~repos
Supported(doc) ==
    \/ doc.kind = "CronJob" /\ doc.group = "batch"
    \/ doc.kind \in {"Deployment", "StatefulSet"} /\ doc.group = "apps"
\* the manifest cannot be opened or decoded
Unusable(file) ==
    ~file.open \/ \E j \in 1..Len(file.docs) : file.docs[j].kind = "undecodable"
\* the <<manifest, document>> positions an error names
Named(err) ==
    IF err = Nil \/ err.err # "failed validating manifests from" THEN {}
    ELSE UNION {{<<err.manifests[i].manifest, err.manifests[i].objects[j].name>> :
                    j \in 1..Len(err.manifests[i].objects)} : i \in 1..Len(err.manifests)}

\* C20: when every manifest given can be opened and decoded, every manifest
\* is processed and the error returned names exactly the supported objects
\* (CronJob, Deployment, StatefulSet), of all manifests, that lack a required
\* annotation, each with its kind, and nil is returned only when there is
\* none; otherwise the error is the open or decode error of the first
\* manifest that cannot be opened or decoded, and no later manifest is reached.
C20_ReportAllOrBail ==
    call.fn = "validateOpsLevelAnnotationsForManifests" =>
        LET files == call.manifestFiles
            unusable == {i \in 1..Len(files) : Unusable(files[i])}
            invalid == {<<i, j>> \in (1..Len(files)) \X (1..2) :
                           /\ j <= Len(files[i].docs)
                           /\ Supported(files[i].docs[j])
                           /\ LacksRequired(files[i].docs[j].annotations)}
        IN IF unusable = {}
           THEN /\ call.ret.visited = Len(files)
                /\ Named(call.ret.err) = invalid
                /\ (call.ret.err = Nil) <=> (invalid = {})
                /\ call.ret.err # Nil =>
                      \A i \in 1..Len(call.ret.err.manifests) :
                         \A j \in 1..Len(call.ret.err.manifests[i].objects) :
                            LET m == call.ret.err.manifests[i]
                            IN m.objects[j].kind = files[m.manifest].docs[m.objects[j].name].kind
           ELSE LET first == CHOOSE i \in unusable : \A k \in unusable : i <= k
                IN /\ call.ret.visited = first
                   /\ call.ret.err.manifest = first
                   /\ call.ret.err.err = IF files[first].open
                                         THEN "Failed reading manifests from"
                                         ELSE "Failed opening manifest"

\* C20 witness: both manifests hold an object without annotations, and the
\* error names the two objects of the first and the one of the second
C20_Witness ==
    /\ call.fn = "validateOpsLevelAnnotationsForManifests"
    /\ Len(call.manifestFiles) = 2
    /\ Len(call.manifestFiles[1].docs) = 2
    /\ Named(call.ret.err) = {<<1, 1>>, <<1, 2>>, <<2, 1>>}
    /\ call.ret.visited = 2

\* C20 witness of the other case: the first manifest holds an object without
\* annotations, the second cannot be opened; the error is the open error
C20_WitnessBail ==
    /\ call.fn = "validateOpsLevelAnnotationsForManifests"
    /\ Len(call.manifestFiles) = 2
    /\ call.manifestFiles[1].open
    /\ Named(validateOpsLevelAnnotationsForManifests(<<call.manifestFiles[1]>>).err) # {}
    /\ ~call.manifestFiles[2].open
    /\ call.ret.err = [err |-> "Failed opening manifest", manifest |-> 2]

\* ---------------------------------------------------- claims: C21 to C30
\* C21 as stated: two calls of findKustomizationRoots with the same paths on
\* the same file tree return the roots in the same order.
C21_SameOrderEveryRun ==
    call.fn = "findKustomizationRoots, twice" => call.again.roots = call.ret.roots

\* C21, amended: two calls of findKustomizationRoots with the same paths on the
\* same file tree return the same roots, each root once and each the nearest
\* root of one of the paths; the two lists are reorderings of each other and
\* need not be equal.
C21_SameRootsAnyOrder ==
    call.fn = "findKustomizationRoots, twice" =>
        LET nearest == {findKustomizationRoot(call.paths[i]).root : i \in 1..Len(call.paths)}
                          \ {EmptyString}
        IN /\ Range(call.ret.roots) = nearest
           /\ Range(call.again.roots) = nearest
           /\ Len(call.ret.roots) = Cardinality(nearest)
           /\ Len(call.again.roots) = Cardinality(nearest)

\* C21 witness: the paths resolve to the roots a and b, which the first call
\* returns as a, b and the second as b, a
C21_Witness ==
    /\ call.fn = "findKustomizationRoots, twice"
    /\ call.paths = << <<"a", MarkerName>>, <<"b", "a">> >>
    /\ call.ret.roots = << <<"a">>, <<"b">> >>
    /\ call.again.roots = << <<"b">>, <<"a">> >>

\* the errors writeManifest returns
WriteErrors == {"failed creating target directory", "error writing to"}
\* the results whose file holds the whole manifest
WrittenInFull == {r \in DOMAIN outFiles : outFiles[r] = buildRet.manifestMap[r]}

\* C22: a failure of writeManifest ends the run at once with that error,
\* naming the root it failed for: the failing step leaves every file written
\* before it in place with its content and writes no whole result; no step
\* follows the return, so the results not yet written stay unwritten; in the
\* returned state every file other than the failing root's holds the whole
\* stdout of its root's build, and the failing root has no whole file.
C22_WriteFailureAborts ==
    /\ [][(pc = "writeManifests" /\ ret'.err \in WriteErrors) =>
            /\ pc' = "done"
            /\ ret'.at \in DOMAIN buildRet.manifestMap \ DOMAIN outFiles
            /\ \A r \in DOMAIN outFiles : r \in DOMAIN outFiles' /\ outFiles'[r] = outFiles[r]
            /\ DOMAIN outFiles' \subseteq DOMAIN outFiles \cup {ret'.at}
            /\ ret'.at \in DOMAIN outFiles' => outFiles'[ret'.at] # buildRet.manifestMap[ret'.at]]_vars
    /\ [][pc = "done" => (outFiles' = outFiles /\ outDirs' = outDirs /\ ret' = ret)]_vars
    /\ []((pc = "done" /\ ret.err \in WriteErrors) =>
            /\ \A r \in DOMAIN outFiles \ {ret.at} : outFiles[r] = Stdout(r)
            /\ ret.at \notin WrittenInFull
            /\ WrittenInFull # DOMAIN buildRet.manifestMap)

\* C22 witness: three results were to be written; the first was written, the
\* write of the second failed, and the run returned with the first file whole
\* and the third result unwritten
C22_Witness ==
    /\ pc = "done"
    /\ ret.err = "error writing to"
    /\ Cardinality(DOMAIN buildRet.manifestMap) = 3
    /\ Cardinality(WrittenInFull) = 1
    /\ \E r \in DOMAIN buildRet.manifestMap : r \notin DOMAIN outFiles /\ r # ret.at

\* the input paths whose probing fails with another error than not-found
ProbeFails == {i \in 1..Len(args.filepaths) :
                  findKustomizationRoot(args.filepaths[i]).err = "error checking for file"}
\* kustomizeBuildDirs has called findKustomizationRoots
RootsSearched ==
    /\ pc \notin {"getwd", "checkKustomizeInstalled", "findKustomizationRoots"}
    /\ ret.err \notin {"error reading working directory", "requires kustomize to be installed"}

\* C23: when the probe of any input path fails with another error than
\* not-found, findKustomizationRoots returns an error of that kind and no
\* roots, however many paths before it resolved; a run that has called it has
\* returned that error, naming the directory of the first failing path, and at
\* no point of the run is a secret truncated, a task launched, a build command
\* started or anything created under out-dir.
C23_ProbeErrorAborts ==
    ProbeFails # {} =>
        LET first == CHOOSE i \in ProbeFails : \A j \in ProbeFails : i <= j
            r == findKustomizationRoots(args.filepaths)
        IN /\ r.err = "error checking for file"
           /\ r.rootsMap = {}
           /\ r.at = findKustomizationRoot(args.filepaths[first]).at
           /\ kustomizationRoots = <<>>
           /\ secrets = <<>>
           /\ content = [f \in Files |-> "data"]
           /\ task = <<>>
           /\ started = {}
           /\ manifestMap = EmptyMap
           /\ buildRet = Running
           /\ NothingWritten
           /\ RootsSearched => (pc = "done" /\ ret = [err |-> r.err, at |-> r.at])

\* C23 witness: with truncate-secrets on, the first path resolved to root b
\* and the probe in a failed for the second; the run returned the error
C23_Witness ==
    /\ args = [doTruncateSecrets |-> TRUE, filepaths |-> << <<"b", "f">>, <<"a", "f">> >>]
    /\ findKustomizationRoot(<<"b", "f">>) = [root |-> <<"b">>, err |-> NoError, at |-> <<"b">>]
    /\ <<"a">> \in statErr
    /\ pc = "done"
    /\ ret = [err |-> "error checking for file", at |-> <<"a">>]

\* the discovered roots whose kustomization.yaml cannot be read or parsed
Unparsable == {r \in Discovered : kind[r] = "Invalid"}
\* nothing has been truncated, launched, built or written
NothingDone ==
    /\ secrets = <<>>
    /\ content = [f \in Files |-> "data"]
    /\ task = <<>>
    /\ started = {}
    /\ manifestMap = EmptyMap
    /\ buildRet = Running
    /\ NothingWritten

\* C24 as stated: a run whose Component filter met a file it cannot read or
\* parse has returned an error value that names the root.
C24_FilterFailureIsErrorValue ==
    (Unparsable # {} /\ RootsSearched /\ pc # "removeComponentKustomizations") =>
        /\ pc = "done"
        /\ ret.err \notin {NoError, "os.Exit(1)"}
        /\ ret.at \in Discovered

\* C24, amended: a kustomization.yaml that cannot be opened makes the filter
\* return an error value naming the root, which kustomizeBuildDirs returns;
\* one that cannot be read once open, or cannot be parsed, ends the process
\* inside checkIfIsComponent (exit status 1, no value returned, the root not
\* named), and is never reported as an error value. Either way the filter
\* does not return its list while a discovered root is unparsable, and
\* nothing has been truncated, launched, built or written.
C24_OpenErrorReturnedParseErrorExits ==
    /\ (pc = "done" /\ ret.err = "failed opening kustomization file") =>
          /\ ret.at \in Discovered
          /\ NothingDone
    /\ pc = "exited" =>
          /\ ret = [err |-> "os.Exit(1)"]
          /\ Unparsable # {}
          /\ NothingDone
    /\ (Unparsable # {} /\ RootsSearched /\ pc # "removeComponentKustomizations") =>
          /\ pc \in {"done", "exited"}
          /\ ret.err \in {"failed opening kustomization file", "os.Exit(1)"}
    /\ FilterReturned => Unparsable = {}

\* C24 witness: the path given lies under root a, whose kustomization.yaml
\* does not parse; the process has exited in the filter
C24_Witness ==
    /\ args.filepaths = << <<"a", "f">> >>
    /\ kind[<<"a">>] = "Invalid"
    /\ pc = "exited"
    /\ ret = [err |-> "os.Exit(1)"]

\* the directories of the paths of the call
InputDirs == {DirSegs(call.paths[i]) : i \in 1..Len(call.paths)}
\* a directory no other directory of the call can be merged with
Lone(d) == \A e \in InputDirs \ {d} : ~SameGroup(d, e)

\* C25 as stated: a directory of the input that has no sibling to merge with
\* is represented by itself cut to minDepth segments, or by itself when it is
\* shallower than minDepth.
C25_LoneGroupTruncated ==
    call.fn = "deepestCommonDirs" =>
        \A d \in InputDirs :
            Lone(d) => WithSeparator(TruncateTo(d, call.minDepth)) \in Range(call.ret)

\* C25, amended: a directory of the input that has no sibling to merge with is
\* represented by itself, whole, when it has at least minDepth segments, and
\* by nothing when it is shallower; no entry of the result has fewer than
\* minDepth segments. So ["aaa/bbb/ccc/file.yaml"] gives ["aaa/bbb/ccc/"] at
\* minDepth 0, and ["file.yaml", "aaa/bbb/file.yaml", "ccc/file.yaml"] gives
\* ["aaa/bbb/", "ccc/"] at minDepth 1, as TestDeepestCommonDirs expects.
C25_LoneGroupKeepsFullDir ==
    call.fn = "deepestCommonDirs" =>
        /\ \A d \in InputDirs :
              Lone(d) => IF Len(d) >= call.minDepth
                         THEN WithSeparator(d) \in Range(call.ret)
                         ELSE WithSeparator(d) \notin Range(call.ret)
        /\ \A i \in 1..Len(call.ret) : Len(call.ret[i]) - 1 >= call.minDepth
        /\ (call.paths = << <<"aaa", "bbb", "ccc", "file.yaml">> >> /\ call.minDepth = 0) =>
              call.ret = << <<"aaa", "bbb", "ccc", "">> >>
        /\ (/\ call.paths = << <<"file.yaml">>, <<"aaa", "bbb", "file.yaml">>, <<"ccc", "file.yaml">> >>
            /\ call.minDepth = 1) =>
              call.ret = << <<"aaa", "bbb", "">>, <<"ccc", "">> >>

\* C25 witness: at minDepth 1 the lone directory aaa/bbb is returned whole, not
\* as aaa/, and the root-level file has no representative
C25_Witness ==
    /\ call.fn = "deepestCommonDirs"
    /\ call.paths = << <<"aaa", "bbb", "file.yaml">>, <<"file.yaml">> >>
    /\ call.minDepth = 1
    /\ call.ret = << <<"aaa", "bbb", "">> >>

\* what run writes when getBaseForChange is handed the status and the whole
\* names of each change
RECURSIVE ClassifiedWhole(_, _)
ClassifiedWhole(changes, out) ==
    IF changes = <<>> THEN [out |-> out, err |-> NoError]
    ELSE LET c == Head(changes)
             r == getBaseForChange(c.status, [i \in 1..Len(c.names) |-> WholeName(c.names[i])])
         IN IF r.err # NoError THEN [out |-> out, err |-> r.err]
            ELSE IF r.base # NoBase THEN ClassifiedWhole(Tail(changes), out \o r.base)
            ELSE ClassifiedWhole(Tail(changes), out)

\* C26 as claimed: for the lines git prints for a list of changes, run writes
\* what the classifier yields for the status and the whole file names of each
\* change, a name with a space in it included.
C26_WholePathsClassified ==
    call.fn = "run on git diff" => call.ret = ClassifiedWhole(call.changes, <<>>)

\* one step of the upward walk: dir = filepath.Clean(filepath.Join(dir, ".."))
WalkStep(dir) == Clean(Join(dir, DotDot))

\* C27 as claimed: for every input path the upward walk of findKustomizationRoot
\* ends: it never is still running after MaxWalk iterations, and it never
\* stands, without a marker and without an error, in a directory other than
\* ".." that the step maps to itself.
C27_WalkTerminates ==
    call.fn = "findKustomizationRoot" =>
        /\ call.ret.err # "diverged"
        /\ ~(/\ call.ret.at # DotDot
             /\ WalkStep(call.ret.at) = call.ret.at
             /\ Stat(call.ret.at) = "notexist")

\* C28 as claimed: every line run writes is the non-empty relative path of a
\* directory that holds a kustomization.yaml; a change for which no root is
\* found adds no line, an empty one included, whatever its status.
C28_OnlyRootsWritten ==
    call.fn = "run" =>
        \A i \in 1..Len(call.ret.out) :
            /\ call.ret.out[i] # EmptyString
            /\ ~IsAbs(call.ret.out[i])
            /\ HasMarker(ProbeLoc(call.ret.out[i]))

\* the roots among the lines written: the lines that are not empty
Roots(out) == SelectSeq(out, LAMBDA line : line # EmptyString)

\* a change none of whose file names holds a space
NoSpace(change) == \A i \in 1..Len(change.names) : Len(change.names[i]) = 1

\* the letter of a status git prints with a similarity score
StatusLetter(status) ==
    IF status = "R100" THEN changeStatusRenaming
    ELSE IF status = "C75" THEN changeStatusCopy
    ELSE status

\* C29 as claimed: run writes for the lines git prints, a rename as R100 and a
\* copy as C75, the roots it writes for the same changes with the bare letters
\* R and C, and returns the same error; stated for file names without spaces.
C29_ScoredStatusClassified ==
    (call.fn = "run on git diff" /\ \A i \in 1..Len(call.changes) : NoSpace(call.changes[i])) =>
        LET bare == run([i \in 1..Len(call.changes) |->
                           gitDiffRawLine(StatusLetter(call.changes[i].status),
                                          call.changes[i].names)])
        IN /\ Roots(call.ret.out) = Roots(bare.out)
           /\ call.ret.err = bare.err

\* how far a goroutine of buildManifests has got
Stage(taskPc) ==
    CASE taskPc = "ready" -> 1
      [] taskPc = "running" -> 2
      [] taskPc = "built" -> 3
      [] taskPc = "locked" -> 4
      [] taskPc = "stored" -> 5
      [] taskPc = "done" -> 6

\* C30: buildManifests is deadlock-free. The mutex is held by a task exactly
\* between its mutex.Lock and its return, so never while that task's build
\* command runs and never after the task has ended; a task takes the mutex
\* only in the step from "built" to "locked" and never steps back, so it takes
\* it once; the step that ends a task holding the mutex releases it, with or
\* without warnings on stderr; and under fair scheduling, every build command
\* exiting, buildManifests returns.
C30_DeadlockFree ==
    /\ [](\A i \in TaskIds : mutex = i <=> task[i].pc \in {"locked", "stored"})
    /\ [][\A i \in TaskIds :
            /\ Stage(task'[i].pc) >= Stage(task[i].pc)
            /\ (mutex # i /\ mutex' = i) => (task[i].pc = "built" /\ task'[i].pc = "locked")
            /\ (task[i].pc # "done" /\ task'[i].pc = "done" /\ mutex = i) => mutex' = 0]_vars
    /\ (pc = "buildManifests") ~> (buildRet # Running)

\* C30 witness: the first task has stored its manifest and ended, the second
\* holds the mutex on the path that prints warnings, the third waits for the
\* mutex
C30_Witness ==
    /\ Len(task) = 3
    /\ task[1].pc = "done"
    /\ task[1].kustomizationRoot \in DOMAIN manifestMap
    /\ task[2].pc = "locked"
    /\ task[2].stderr = Stderr(task[2].kustomizationRoot)
    /\ mutex = 2
    /\ task[3].pc = "built"

====
